---- MODULE Spec2Model ----
(***************************************************************************)
(* Bulletin structure recovery: summary/body boundary detection, body      *)
(* organization windows, Series III windowed-header segmentation and       *)
(* Series I/II block slicing.  Texts are sequences of one-character        *)
(* strings; offsets are 0-based and half-open as in the Python source.     *)
(***************************************************************************)
EXTENDS Integers, Sequences, FiniteSets, TLC

VARIABLES
    pc,               \* position of the run
    doc_body,         \* the classified document: [text, ents]
    payload,          \* the expected hierarchy handed to the segmenter
    org_windows,      \* Series III windows
    org_blocks,       \* Series I/II organization blocks
    doc_type_matches, \* Series III: item key -> match or None
    next_bounds,      \* Series III: <<window index, start>> -> segment end
    results,          \* per-organization records
    results_min,      \* flattened output
    split_out         \* result of a summary/body splitter

vars == <<pc, doc_body, payload, org_windows, org_blocks, doc_type_matches,
          next_bounds, results, results_min, split_out>>

\* the value of a variable the run has not assigned yet
Unset == <<>>

\* ------------------------------------------------------------------------
\* Characters
\* ------------------------------------------------------------------------

LowerSeq == <<"a","b","c","d","e","f","g","h","i","j","k","l","m",
              "n","o","p","q","r","s","t","u","v","w","x","y","z">>
UpperSeq == <<"A","B","C","D","E","F","G","H","I","J","K","L","M",
              "N","O","P","Q","R","S","T","U","V","W","X","Y","Z">>
AccLowerSeq == <<"á","â","ã","ç","é","í","ó","ú">>
AccUpperSeq == <<"Á","Â","Ã","Ç","É","Í","Ó","Ú">>
AccBaseSeq  == <<"a","a","a","c","e","i","o","u">>

Range(f) == {f[i] : i \in DOMAIN f}

Lower == Range(LowerSeq)
Upper == Range(UpperSeq)
AccLower == Range(AccLowerSeq)
AccUpper == Range(AccUpperSeq)
Digit == {"0","1","2","3","4","5","6","7","8","9"}
Space == {" ", "\n"}
Punct == {"*", ":", ".", "-", "/", "&", ",", ";", "º", "(", ")"}
Char == Lower \cup Upper \cup AccLower \cup AccUpper \cup Digit \cup Space \cup Punct

IndexIn(seq, c) == CHOOSE i \in DOMAIN seq : seq[i] = c

\* str.lower() / str.casefold() on one character
ToLower(c) ==
    IF c \in Upper THEN LowerSeq[IndexIn(UpperSeq, c)]
    ELSE IF c \in AccUpper THEN AccLowerSeq[IndexIn(AccUpperSeq, c)]
    ELSE c

\* str.upper() on one character
ToUpper(c) ==
    IF c \in Lower THEN UpperSeq[IndexIn(LowerSeq, c)]
    ELSE IF c \in AccLower THEN AccUpperSeq[IndexIn(AccLowerSeq, c)]
    ELSE c

\* unicodedata NFD decomposition with the combining marks dropped
StripAccent(c) ==
    IF c \in AccLower THEN AccBaseSeq[IndexIn(AccLowerSeq, c)]
    ELSE IF c \in AccUpper THEN ToUpper(AccBaseSeq[IndexIn(AccUpperSeq, c)])
    ELSE c

\* unicodedata NFKD with the combining marks dropped: as NFD, and the
\* ordinal indicator decomposes to the letter o
StripAccentK(c) == IF c = "º" THEN "o" ELSE StripAccent(c)

\* str.isalpha() on one character (the ordinal indicator is a letter, Lo)
IsAlpha(c) == c \in Lower \cup Upper \cup AccLower \cup AccUpper \cup {"º"}

IsSpace(c) == c \in Space

\* ------------------------------------------------------------------------
\* Strings
\* ------------------------------------------------------------------------

SetMin(S) == CHOOSE m \in S : \A k \in S : m <= k
SetMax(S) == CHOOSE m \in S : \A k \in S : m >= k

\* text[s:e] with 0-based half-open offsets
Slice(text, s, e) == SubSeq(text, s + 1, e)

\* str.strip()
Strip(s) ==
    LET idx == {i \in 1..Len(s) : ~IsSpace(s[i])}
    IN  IF idx = {} THEN <<>> ELSE SubSeq(s, SetMin(idx), SetMax(idx))

\* " ".join(s.split())
CollapseWs(s) ==
    LET n == Len(s)
        keep(i) == \/ ~IsSpace(s[i])
                   \/ /\ i > 1
                      /\ ~IsSpace(s[i - 1])
                      /\ \E j \in (i + 1)..n : ~IsSpace(s[j])
        marked == [i \in 1..n |->
                    IF ~IsSpace(s[i]) THEN s[i] ELSE IF keep(i) THEN " " ELSE "DROP"]
    IN  SelectSeq(marked, LAMBDA c : c # "DROP")

\* len(s.split())
TokenCount(s) ==
    Cardinality({i \in 1..Len(s) : ~IsSpace(s[i]) /\ (i = 1 \/ IsSpace(s[i - 1]))})

StartsWith(s, p) == Len(p) <= Len(s) /\ SubSeq(s, 1, Len(p)) = p
EndsWith(s, p) == Len(p) <= Len(s) /\ SubSeq(s, Len(s) - Len(p) + 1, Len(s)) = p

\* a in b
IsSubstr(a, b) == \E i \in 0..(Len(b) - Len(a)) : SubSeq(b, i + 1, i + Len(a)) = a

\* s.replace(" ", "")
DropSpaces(s) == SelectSeq(s, LAMBDA c : c # " ")

Lowered(s) == [i \in 1..Len(s) |-> ToLower(s[i])]
Uppered(s) == [i \in 1..Len(s) |-> ToUpper(s[i])]

\* the characters of s without their accents, by NFD and by NFKD
Unaccented(s) == [i \in 1..Len(s) |-> StripAccent(s[i])]
UnaccentedK(s) == [i \in 1..Len(s) |-> StripAccentK(s[i])]

Bold == <<"*", "*">>

\* s[2:-2].strip() when s starts and ends with the bold marker and has at
\* least four characters, else s
Unbold(s) ==
    IF StartsWith(s, Bold) /\ EndsWith(s, Bold) /\ Len(s) >= 4
    THEN Strip(SubSeq(s, 3, Len(s) - 2))
    ELSE s

\* ------------------------------------------------------------------------
\* Documents: a classified text is its characters and its spans (doc.ents),
\* in ascending start order and disjoint, as the classifier emits them.
\* A document is laid out from pieces, each followed by a line break; a
\* piece labelled TEXT is text that carries no span.
\* ------------------------------------------------------------------------

RECURSIVE PieceStart(_, _)
PieceStart(pieces, i) ==
    IF i = 1 THEN 0
    ELSE PieceStart(pieces, i - 1) + Len(pieces[i - 1].text) + 1

RECURSIVE PiecesText(_, _)
PiecesText(pieces, n) ==
    IF n = 0 THEN <<>>
    ELSE PiecesText(pieces, n - 1) \o pieces[n].text \o <<"\n">>

PieceEnt(pieces, i) ==
    [label_ |-> pieces[i].label_, text |-> pieces[i].text,
     start_char |-> PieceStart(pieces, i),
     end_char |-> PieceStart(pieces, i) + Len(pieces[i].text)]

RECURSIVE PiecesEnts(_, _)
PiecesEnts(pieces, n) ==
    IF n = 0 THEN <<>>
    ELSE IF pieces[n].label_ = "TEXT" THEN PiecesEnts(pieces, n - 1)
    ELSE Append(PiecesEnts(pieces, n - 1), PieceEnt(pieces, n))

DocOf(pieces) ==
    [text |-> PiecesText(pieces, Len(pieces)),
     ents |-> PiecesEnts(pieces, Len(pieces))]

SeqsUpTo(S, n) == UNION {[1..k -> S] : k \in 0..n}

\* sorted(spans, key=start_char): a stable sort
SortByStart(spans) ==
    LET n == Len(spans)
        rank(i) == 1 + Cardinality({j \in 1..n :
                        \/ spans[j].start_char < spans[i].start_char
                        \/ spans[j].start_char = spans[i].start_char /\ j < i})
    IN  [k \in 1..n |-> spans[CHOOSE i \in 1..n : rank(i) = k]]

ORG_LIKE_LABELS == {"ORG_LABEL", "ORG_WITH_STAR_LABEL"}

\* ------------------------------------------------------------------------
\* Texts of the modelled bulletins
\* ------------------------------------------------------------------------

T_SecRegional == <<"S","E","C"," ","R","E","G","I","O","N","A","L">>
T_DaSaude == <<"D","A"," ","S","A","Ú","D","E">>
T_CamaraBold == <<"*","*","C","â","m","a","r","a"," ","M","u","n","i","c","i","p","a","l","*","*">>
T_Texto == <<"t","e","x","t","o">>
T_SecRegionalSaude == <<"S","e","c"," ","R","e","g","i","o","n","a","l"," ","d","a"," ","S","a","u","d","e">>
T_Camara == <<"C","â","m","a","r","a"," ","M","u","n","i","c","i","p","a","l">>
T_Regional == <<"R","e","g","i","o","n","a","l">>

Piece(l, t) == [label_ |-> l, text |-> t]

GlobalName == <<"(", "g", "l", "o", "b", "a", "l", ")">>

\* the organization names of the modelled bulletins
OrgTexts ==
    {T_SecRegional, T_DaSaude, T_CamaraBold, T_SecRegionalSaude, T_Camara, T_Regional,
     GlobalName}

\* ------------------------------------------------------------------------
\* Series III: organization windows (org_windows.py)
\* ------------------------------------------------------------------------

MIN_LETTERS == 8
MIN_TOKENS == 2

\* norm, local to _collect_org_windows_from_ents
norm(s) == Unbold(CollapseWs(Strip(s)))

\* tight, local to _collect_org_windows_from_ents
tight(s) == Lowered(DropSpaces(norm(s)))

\* the two forms of an organization text, tabulated once for the
\* organization names of the modelled bulletins
AnchorForms(text) == [norm |-> norm(text), tight |-> tight(text)]
AnchorFormsTable == [text \in OrgTexts |-> AnchorForms(text)]
AnchorFormsOf(text) == IF text \in OrgTexts THEN AnchorFormsTable[text] ELSE AnchorForms(text)

\* the quality gates and the allowed-organization test on the forms of a span
OrgFormsKept(cand, allowed_tight) ==
    /\ ~(Len(SelectSeq(cand.norm, IsAlpha)) < MIN_LETTERS \/ TokenCount(cand.norm) < MIN_TOKENS)
    /\ \E k \in DOMAIN allowed_tight :
          \/ cand.tight = allowed_tight[k]
          \/ IsSubstr(cand.tight, allowed_tight[k])
          \/ IsSubstr(allowed_tight[k], cand.tight)

OrgEntKept(e, allowed_tight) == OrgFormsKept(AnchorFormsOf(e.text), allowed_tight)

\* mutant: each window ends where its anchor span ends
WindowsOfKept_EndAtAnchor(kept_sorted, body_len) ==
    [i \in 1..Len(kept_sorted) |->
        [name |-> kept_sorted[i].text,
         start |-> kept_sorted[i].start_char,
         end |-> IF i + 1 <= Len(kept_sorted)
                 THEN kept_sorted[i].end_char ELSE body_len]]

\* the windows of the kept anchors: each runs to the next anchor's start
WindowsOfKept(kept_sorted, body_len) ==
    [i \in 1..Len(kept_sorted) |->
        [name |-> kept_sorted[i].text,
         start |-> kept_sorted[i].start_char,
         end |-> IF i + 1 <= Len(kept_sorted)
                 THEN kept_sorted[i + 1].start_char ELSE body_len]]

GlobalWindow(body_len) == <<[name |-> GlobalName, start |-> 0, end |-> body_len]>>

\* allowed_orgs: the non-empty normalized organization names
AllowedNorms(allowed_orgs_raw) ==
    SelectSeq([i \in 1..Len(allowed_orgs_raw) |-> AnchorFormsOf(allowed_orgs_raw[i]).norm],
              LAMBDA o : o # <<>>)

\* allowed_tight
AllowedTight(allowed_orgs) ==
    [i \in 1..Len(allowed_orgs) |-> AnchorFormsOf(allowed_orgs[i]).tight]

\* kept: the organization-like spans, by start, that pass OrgEntKept
KeptOrgEnts(body, allowed_tight) ==
    SelectSeq(SortByStart(SelectSeq(body.ents, LAMBDA e : e.label_ \in ORG_LIKE_LABELS)),
              LAMBDA e : OrgEntKept(e, allowed_tight))

WindowsOrGlobal(kept, body_len) ==
    IF kept # <<>> THEN WindowsOfKept(SortByStart(kept), body_len) ELSE GlobalWindow(body_len)

_collect_org_windows_from_ents(body, allowed_orgs_raw) ==
    WindowsOrGlobal(KeptOrgEnts(body, AllowedTight(AllowedNorms(allowed_orgs_raw))),
                    Len(body.text))

\* ------------------------------------------------------------------------
\* Series I/II: normalization (normalization.py) and organization blocks
\* (extract.py)
\* ------------------------------------------------------------------------

IGNORE_LABELS == {"JUNK_LABEL"}
DOC_NAME_LABEL == "DOC_NAME_LABEL"

\* s.replace("**", ""): occurrences are removed left to right
RECURSIVE RemoveBold(_)
RemoveBold(s) ==
    IF s = <<>> THEN <<>>
    ELSE IF StartsWith(s, Bold) THEN RemoveBold(SubSeq(s, 3, Len(s)))
    ELSE <<s[1]>> \o RemoveBold(Tail(s))

_strip_markdown_bold(s) == Strip(RemoveBold(s))

IsAsciiAlnum(c) == c \in Lower \cup Upper \cup Digit

_org_key(s) ==
    LET unaccented == Unaccented(_strip_markdown_bold(s))
        amp == [i \in 1..Len(unaccented) |->
                    IF unaccented[i] = "&" THEN "E" ELSE unaccented[i]]
    IN  Uppered(SelectSeq(amp, IsAsciiAlnum))

\* _collect_spans: the spans of the document but the ignored labels, by start
_collect_spans(doc) ==
    SortByStart(SelectSeq(doc.ents, LAMBDA e : e.label_ \notin IGNORE_LABELS))

max_merge == 3

\* the characters re.match(r"^[\s•\-–,.;:]*$", gap) accepts
LightGapChars == Space \cup {"-", ",", ".", ";", ":"}

IsLightGap(gap) == \A k \in DOMAIN gap : gap[k] \in LightGapChars

\* concatenated_raw after the inner loop has reached j
RECURSIVE ConcatRaw(_, _, _)
ConcatRaw(orgs, i, j) ==
    IF j = i THEN orgs[i].text
    ELSE ConcatRaw(orgs, i, j - 1) \o <<" ">> \o orgs[j].text

\* mutant: no gap makes the inner loop break
ReachesJ_AnyGap(doc_text, orgs, i, j) == TRUE

\* the inner loop reaches j: no gap before it made the loop break
ReachesJ(doc_text, orgs, i, j) ==
    \A k \in (i + 1)..j :
        IsLightGap(Slice(doc_text, orgs[k - 1].end_char, orgs[k].start_char))

\* the values of j for which best_j is assigned
BestJs(doc_text, orgs, valid_keys, i) ==
    {j \in i..(SetMin({i + max_merge, Len(orgs) + 1}) - 1) :
        /\ ReachesJ(doc_text, orgs, i, j)
        /\ _org_key(ConcatRaw(orgs, i, j)) \in valid_keys}

\* the while loop of the coalescing anchor scan, from index i
RECURSIVE CoalescedAnchors(_, _, _, _)
CoalescedAnchors(doc_text, orgs, valid_keys, i) ==
    IF i > Len(orgs) THEN <<>>
    ELSE LET js == BestJs(doc_text, orgs, valid_keys, i)
         IN  IF js # {}
             THEN LET best_j == SetMax(js)
                      a == [label_ |-> orgs[i].label_,
                            text |-> Slice(doc_text, orgs[i].start_char, orgs[best_j].end_char),
                            start_char |-> orgs[i].start_char,
                            end_char |-> orgs[best_j].end_char]
                  IN  <<a>> \o CoalescedAnchors(doc_text, orgs, valid_keys, best_j + 1)
             ELSE IF _org_key(orgs[i].text) \in valid_keys
                  THEN <<orgs[i]>> \o CoalescedAnchors(doc_text, orgs, valid_keys, i + 1)
                  ELSE CoalescedAnchors(doc_text, orgs, valid_keys, i + 1)

\* blocks: (anchor, start, end), each running to the next anchor's start
BlocksOfAnchors(anchors, text_len) ==
    [k \in 1..Len(anchors) |->
        [span |-> anchors[k],
         start |-> anchors[k].start_char,
         end |-> IF k + 1 <= Len(anchors) THEN anchors[k + 1].start_char ELSE text_len]]

_build_org_blocks_coalesced_to_json(doc_text, spans, valid_org_keys) ==
    LET orgs == SortByStart(SelectSeq(spans, LAMBDA sp : sp.label_ \in ORG_LIKE_LABELS))
    IN  BlocksOfAnchors(CoalescedAnchors(doc_text, orgs, valid_org_keys, 1), Len(doc_text))

\* ------------------------------------------------------------------------
\* The window builders run on one body (SpecWindows)
\* ------------------------------------------------------------------------

MaxWindowEnts == 3

WindowPieces ==
    {Piece("ORG_LABEL", T_SecRegional), Piece("ORG_WITH_STAR_LABEL", T_DaSaude),
     Piece("ORG_LABEL", T_CamaraBold), Piece("PARAGRAPH", T_Texto)}

WindowOrgLists ==
    {<<>>, <<T_SecRegionalSaude>>, <<T_Camara>>, <<T_SecRegionalSaude, T_Camara>>}

OrgsOfTexts(texts) == [i \in 1..Len(texts) |-> [id |-> i, text |-> texts[i]]]

\* segmenter.py: _allowed_orgs, the payload's organization texts
AllowedOrgs(pl) == [i \in 1..Len(pl.orgs) |-> Strip(pl.orgs[i].text)]

\* extract.py: json_org_keys of a payload's organization texts
OrgKeys(pl) == {_org_key(pl.orgs[i].text) : i \in 1..Len(pl.orgs)}

InitWindows ==
    /\ pc = "windows_start"
    /\ doc_body \in {DocOf(ps) : ps \in SeqsUpTo(WindowPieces, MaxWindowEnts)}
    /\ payload \in {[orgs |-> OrgsOfTexts(ts), items |-> <<>>] : ts \in WindowOrgLists}
    /\ org_windows = Unset
    /\ org_blocks = Unset
    /\ doc_type_matches = Unset
    /\ next_bounds = Unset
    /\ results = Unset
    /\ results_min = Unset
    /\ split_out = Unset

CollectOrgWindows ==
    /\ pc \in {"windows_start", "blocks_built"}
    /\ pc' = IF pc = "windows_start" THEN "windows_built" ELSE "both_built"
    /\ org_windows' = _collect_org_windows_from_ents(doc_body, AllowedOrgs(payload))
    /\ UNCHANGED <<doc_body, payload, org_blocks, doc_type_matches, next_bounds,
                   results, results_min, split_out>>

BuildOrgBlocks ==
    /\ pc \in {"windows_start", "windows_built"}
    /\ pc' = IF pc = "windows_start" THEN "blocks_built" ELSE "both_built"
    /\ org_blocks' = _build_org_blocks_coalesced_to_json(
                        doc_body.text, _collect_spans(doc_body), OrgKeys(payload))
    /\ UNCHANGED <<doc_body, payload, org_windows, doc_type_matches, next_bounds,
                   results, results_min, split_out>>

NextWindows == CollectOrgWindows \/ BuildOrgBlocks

SpecWindows == InitWindows /\ [][NextWindows]_vars

\* a sequence of windows is ordered, non-overlapping and contiguous, and
\* ends where the body ends
Tiles(ws, body_len) ==
    /\ \A i \in 1..Len(ws) : ws[i].start <= ws[i].end
    /\ \A i \in 1..(Len(ws) - 1) :
          ws[i].start < ws[i + 1].start /\ ws[i].end = ws[i + 1].start
    /\ ws # <<>> => ws[Len(ws)].end = body_len

\* the accepted Series III anchors of the body, found span by span
AcceptedOrgEnts ==
    LET allowed == AllowedOrgs(payload)
        allowed_tight == [i \in 1..Len(allowed) |-> tight(allowed[i])]
    IN  SelectSeq(doc_body.ents,
                  LAMBDA e : e.label_ \in ORG_LIKE_LABELS /\ OrgEntKept(e, allowed_tight))

\* the starts of the Series I/II organization spans from which some
\* concatenation of at most max_merge spans has a valid key
AcceptedBlockStarts ==
    LET orgs == SelectSeq(_collect_spans(doc_body), LAMBDA sp : sp.label_ \in ORG_LIKE_LABELS)
    IN  {orgs[i].start_char : i \in {k \in 1..Len(orgs) :
                BestJs(doc_body.text, orgs, OrgKeys(payload), k) # {}}}

IsGlobalOnly(ws, body_len) ==
    ws = <<[name |-> GlobalName, start |-> 0, end |-> body_len]>>

\* C1 (as stated): the windows of both builders are ordered, non-overlapping
\* and contiguous, their union is exactly [0, len(body)), and with no
\* accepted anchor there is exactly one window, "(global)", over the body.
C1_TilesWholeBody ==
    LET n == Len(doc_body.text)
    IN  /\ pc \in {"windows_built", "both_built"} =>
            /\ org_windows # <<>>
            /\ Tiles(org_windows, n)
            /\ org_windows[1].start = 0
            /\ AcceptedOrgEnts = <<>> => IsGlobalOnly(org_windows, n)
        /\ pc \in {"blocks_built", "both_built"} =>
            /\ org_blocks # <<>>
            /\ Tiles(org_blocks, n)
            /\ org_blocks[1].start = 0

\* C1 (amended): the windows are ordered, non-overlapping and contiguous and
\* their union is exactly [start of the first accepted anchor, len(body));
\* with no accepted anchor Series III has the one window "(global)" over
\* [0, len(body)) and Series I/II has no block.
C1_TilesFromFirstAnchor ==
    LET n == Len(doc_body.text)
    IN  /\ pc \in {"windows_built", "both_built"} =>
            /\ org_windows # <<>>
            /\ Tiles(org_windows, n)
            /\ AcceptedOrgEnts # <<>> =>
                  /\ org_windows[1].start = AcceptedOrgEnts[1].start_char
                  /\ Len(org_windows) = Len(AcceptedOrgEnts)
            /\ AcceptedOrgEnts = <<>> => IsGlobalOnly(org_windows, n)
        /\ pc \in {"blocks_built", "both_built"} =>
            /\ Tiles(org_blocks, n)
            /\ \A k \in 1..Len(org_blocks) :
                  /\ org_blocks[k].start = org_blocks[k].span.start_char
                  /\ _org_key(org_blocks[k].span.text) \in OrgKeys(payload)
            /\ org_blocks = <<>> <=> AcceptedBlockStarts = {}
            /\ org_blocks # <<>> => org_blocks[1].start = SetMin(AcceptedBlockStarts)

\* both builders have run on a body whose first accepted anchor is not at
\* offset 0 and that has two windows and two blocks
C1_Witness ==
    /\ pc = "both_built"
    /\ Len(org_windows) >= 2 /\ org_windows[1].start > 0
    /\ Len(org_blocks) >= 2 /\ org_blocks[1].start > 0

\* ------------------------------------------------------------------------
\* Boundary detector (split_text/split_text.py)
\* ------------------------------------------------------------------------

SUMARIO_LABEL == "Sumario"
JUNK_LABEL == "JUNK_LABEL"

_normalize_for_match_letters_only(s) ==
    Lowered(SelectSeq(UnaccentedK(s), LAMBDA ch : IsAlpha(ch)))

\* the element at the least of the given indexes, as <<element>>, or <<>>
\* when there is none: the first hit of a scan that breaks at its first hit
FirstAt(seq, hits) ==
    IF hits = {} THEN <<>> ELSE <<seq[SetMin(hits)]>>

\* mutant: the first heading of the stream is taken
LastSumarioEnt_First(ents) ==
    FirstAt(ents, {i \in 1..Len(ents) : ents[i].label_ = SUMARIO_LABEL})

\* the heading: the last span labelled Sumario, <<>> when there is none
LastSumarioEnt(ents) ==
    LET hits == {i \in 1..Len(ents) : ents[i].label_ = SUMARIO_LABEL}
    IN  IF hits = {} THEN <<>> ELSE <<ents[SetMax(hits)]>>

\* orgs_after / junk_after: the spans of the given labels from the heading's end on
EntsAfter(ents, seen_sumario_end, labels) ==
    SelectSeq(ents, LAMBDA e : e.start_char >= seen_sumario_end /\ e.label_ \in labels)

RepeatsKey(e, first_org_norm) ==
    _normalize_for_match_letters_only(e.text) = first_org_norm

ContainedShorter(e, first_org_norm) ==
    LET cur_norm == _normalize_for_match_letters_only(e.text)
    IN  IsSubstr(cur_norm, first_org_norm) /\ Len(cur_norm) < Len(first_org_norm)

\* mutant: the span after the first organization is the boundary, matching or not
BoundaryEnt_NextOrg(ents, seen_sumario_end, orgs_after) ==
    IF Len(orgs_after) >= 2 THEN <<orgs_after[2]>> ELSE <<>>

\* boundary_ent: exact repeat, then contained-shorter, among the later
\* organization-like spans; then the same two scans among the junk spans
BoundaryEnt(ents, seen_sumario_end, orgs_after) ==
    LET first_org_norm == _normalize_for_match_letters_only(orgs_after[1].text)
        later == Tail(orgs_after)
        junk_after == EntsAfter(ents, seen_sumario_end, {JUNK_LABEL})
        o1 == FirstAt(later, {i \in 1..Len(later) : RepeatsKey(later[i], first_org_norm)})
        o2 == FirstAt(later, {i \in 1..Len(later) : ContainedShorter(later[i], first_org_norm)})
        j1 == FirstAt(junk_after,
                      {i \in 1..Len(junk_after) : RepeatsKey(junk_after[i], first_org_norm)})
        j2 == FirstAt(junk_after,
                      {i \in 1..Len(junk_after) : ContainedShorter(junk_after[i], first_org_norm)})
    IN  IF o1 # <<>> THEN o1
        ELSE IF o2 # <<>> THEN o2
        ELSE IF j1 # <<>> THEN j1
        ELSE j2

\* the returned triple; sumario_is_none tells None from the empty string
SplitResult(sumario_is_none, sumario, body, reason, boundary_org_start) ==
    [raised |-> FALSE, sumario_is_none |-> sumario_is_none, sumario |-> sumario,
     body |-> body, reason |-> reason, boundary_org_start |-> boundary_org_start]

split_sumario_and_body(doc) ==
    LET text == doc.text
        n == Len(text)
        sumario_ent == LastSumarioEnt(doc.ents)
    IN  IF sumario_ent = <<>>
        THEN SplitResult(TRUE, <<>>, text, "no_sumario", -1)
        ELSE
        LET seen_sumario_end == sumario_ent[1].end_char
            orgs_after == EntsAfter(doc.ents, seen_sumario_end, ORG_LIKE_LABELS)
        IN  IF orgs_after = <<>>
            THEN SplitResult(FALSE, Slice(text, seen_sumario_end, n), <<>>,
                             "no_org_after_sumario", -1)
            ELSE
            LET boundary_ent == BoundaryEnt(doc.ents, seen_sumario_end, orgs_after)
            IN  IF boundary_ent = <<>>
                THEN SplitResult(FALSE, Slice(text, seen_sumario_end, n), <<>>,
                                 "no_repeat_match", -1)
                ELSE
                LET boundary_start == boundary_ent[1].start_char
                IN  SplitResult(FALSE, Slice(text, seen_sumario_end, boundary_start),
                                Slice(text, boundary_start, n), "None", boundary_start)

\* ------------------------------------------------------------------------
\* Boundary detector, dictionary variant (split_text/split_text_02.py)
\* ------------------------------------------------------------------------

_normalize_for_match_letters_only_02(s) ==
    LET folded == SelectSeq(Lowered(UnaccentedK(s)), LAMBDA ch : ~IsSpace(ch))
    IN  SelectSeq(folded, LAMBDA ch : IsAlpha(ch))

_normalize_for_match_letters_and_digits(s) ==
    LET folded == SelectSeq(Lowered(UnaccentedK(s)), LAMBDA ch : ~IsSpace(ch))
    IN  SelectSeq(folded, LAMBDA ch : IsAlpha(ch) \/ ch \in Digit)

\* indexed_entity_dict: position -> (text, label), positions 1..n here
_extract_text_to_dic(doc) ==
    [i \in 1..Len(doc.ents) |->
        [pos |-> i, text |-> doc.ents[i].text, label |-> doc.ents[i].label_]]

\* (target_org_text, initial_doc_name_text, position_org); 0 and <<>> stand
\* for None
_find_org_after_last_sumario(dict) ==
    LET sums == {i \in DOMAIN dict : dict[i].label = "Sumario"}
        last_sumario_position == IF sums = {} THEN 0 ELSE SetMax(sums)
        orgs == {i \in DOMAIN dict :
                    i > last_sumario_position /\ dict[i].label \in ORG_LIKE_LABELS}
        position_org == IF sums = {} \/ orgs = {} THEN 0 ELSE SetMin(orgs)
        docs == {i \in DOMAIN dict :
                    position_org # 0 /\ i > position_org /\ dict[i].label = "DOC_NAME_LABEL"}
    IN  [target_org_text |-> IF position_org = 0 THEN <<>> ELSE dict[position_org].text,
         initial_doc_name_text |-> IF docs = {} THEN <<>> ELSE dict[SetMin(docs)].text,
         position_org |-> position_org]

PrefixEitherWay(a, b) == StartsWith(a, b) \/ StartsWith(b, a)
SubstrEitherWay(a, b) == IsSubstr(a, b) \/ IsSubstr(b, a)

\* mutant: the document-name pass is left out
NextMatchPosition_NoDocFallback(dict, target_org_text, initial_doc_name_text, position_org) ==
    LET normalized_target_org == _normalize_for_match_letters_only_02(target_org_text)
        later_orgs == {i \in DOMAIN dict : i > position_org /\ dict[i].label \in ORG_LIKE_LABELS}
        cur(i) == _normalize_for_match_letters_only_02(Strip(dict[i].text))
        pass1 == {i \in later_orgs : PrefixEitherWay(cur(i), normalized_target_org)}
        pass2 == {i \in later_orgs : SubstrEitherWay(cur(i), normalized_target_org)}
    IN  IF pass1 # {} THEN SetMin(pass1)
        ELSE IF pass2 # {} THEN SetMin(pass2)
        ELSE 0

\* next_match_position after the three passes, 0 for None
NextMatchPosition(dict, target_org_text, initial_doc_name_text, position_org) ==
    LET normalized_target_org == _normalize_for_match_letters_only_02(target_org_text)
        later_orgs == {i \in DOMAIN dict : i > position_org /\ dict[i].label \in ORG_LIKE_LABELS}
        cur(i) == _normalize_for_match_letters_only_02(Strip(dict[i].text))
        pass1 == {i \in later_orgs : PrefixEitherWay(cur(i), normalized_target_org)}
        pass2 == {i \in later_orgs : SubstrEitherWay(cur(i), normalized_target_org)}
        normalized_target_doc == _normalize_for_match_letters_and_digits(initial_doc_name_text)
        curd(i) == _normalize_for_match_letters_and_digits(Strip(dict[i].text))
        pass3 == {i \in DOMAIN dict :
                    /\ i > position_org
                    /\ dict[i].label = "DOC_NAME_LABEL"
                    /\ \/ PrefixEitherWay(curd(i), normalized_target_doc)
                       \/ SubstrEitherWay(curd(i), normalized_target_doc)}
        second == {i \in pass3 : Cardinality({k \in pass3 : k < i}) = 1}
    IN  IF pass1 # {} THEN SetMin(pass1)
        ELSE IF pass2 # {} THEN SetMin(pass2)
        ELSE IF initial_doc_name_text # <<>> /\ second # {} THEN SetMin(second)
        ELSE 0

\* _find_next_matching_org: raises ValueError when position_org is None or
\* no pass finds a match, else returns (sumario_dict, body_dict)
_find_next_matching_org(dict, target_org_text, initial_doc_name_text, position_org) ==
    IF position_org = 0 THEN [raised |-> TRUE]
    ELSE
    LET next_match_position ==
            NextMatchPosition(dict, target_org_text, initial_doc_name_text, position_org)
    IN  IF next_match_position = 0 THEN [raised |-> TRUE]
        ELSE
        LET doc_fallback_used == dict[next_match_position].label = "DOC_NAME_LABEL"
        IN  [raised |-> FALSE,
             sumario_dict |-> SelectSeq(dict,
                LAMBDA en : en.pos >= position_org /\ en.pos < next_match_position),
             body_dict |-> SelectSeq(dict,
                LAMBDA en : \/ en.pos >= next_match_position
                            \/ doc_fallback_used /\ en.pos = position_org)]

\* the number of entries merged into the starred organization at index i
RECURSIVE StarRunLen(_, _)
StarRunLen(seg, i) ==
    IF /\ i + 1 <= Len(seg)
       /\ seg[i + 1].pos = seg[i].pos + 1
       /\ seg[i + 1].label = "ORG_WITH_STAR_LABEL"
    THEN 1 + StarRunLen(seg, i + 1)
    ELSE 1

RECURSIVE JoinTexts(_, _, _)
JoinTexts(seg, i, n) ==
    IF n = 1 THEN seg[i].text
    ELSE JoinTexts(seg, i, n - 1) \o <<" ">> \o seg[i + n - 1].text

RECURSIVE MergeFrom(_, _)
MergeFrom(seg, i) ==
    IF i > Len(seg) THEN <<>>
    ELSE IF seg[i].label = "ORG_WITH_STAR_LABEL"
    THEN LET n == StarRunLen(seg, i)
         IN  <<[pos |-> seg[i].pos, text |-> JoinTexts(seg, i, n), label |-> seg[i].label]>>
             \o MergeFrom(seg, i + n)
    ELSE <<seg[i]>> \o MergeFrom(seg, i + 1)

_merge_adjacent_star_orgs_in_dict(segment_dict) == MergeFrom(segment_dict, 1)

split_text(doc) ==
    LET indexed_entity_dict == _extract_text_to_dic(doc)
        found == _find_org_after_last_sumario(indexed_entity_dict)
        cut == _find_next_matching_org(indexed_entity_dict, found.target_org_text,
                                       found.initial_doc_name_text, found.position_org)
    IN  IF cut.raised THEN [raised |-> TRUE]
        ELSE [raised |-> FALSE,
              sumario_dict |-> _merge_adjacent_star_orgs_in_dict(cut.sumario_dict),
              body_dict |-> cut.body_dict]

\* ------------------------------------------------------------------------
\* The boundary detectors run on one span stream (SpecSplit)
\* ------------------------------------------------------------------------

MaxSplitEnts == 4

T_Sum == <<"S","u","m">>
T_Ab == <<"A","b">>
T_AbAccent == <<"Á"," ","B">>
T_b == <<"b">>
T_JunkAb == <<"a","-","b">>
T_D1 == <<"D","1">>

SplitPieces ==
    {Piece("Sumario", T_Sum), Piece("ORG_LABEL", T_Ab),
     Piece("ORG_WITH_STAR_LABEL", T_AbAccent), Piece("ORG_LABEL", T_b),
     Piece("JUNK_LABEL", T_JunkAb), Piece("DOC_NAME_LABEL", T_D1)}

InitSplit ==
    /\ pc = "split_start"
    /\ doc_body \in {DocOf(ps) : ps \in SeqsUpTo(SplitPieces, MaxSplitEnts)}
    /\ payload = Unset
    /\ org_windows = Unset
    /\ org_blocks = Unset
    /\ doc_type_matches = Unset
    /\ next_bounds = Unset
    /\ results = Unset
    /\ results_min = Unset
    /\ split_out = Unset

SplitSumarioAndBody ==
    /\ pc = "split_start"
    /\ pc' = "sumario_body_done"
    /\ split_out' = split_sumario_and_body(doc_body)
    /\ UNCHANGED <<doc_body, payload, org_windows, org_blocks, doc_type_matches,
                   next_bounds, results, results_min>>

SplitText ==
    /\ pc = "split_start"
    /\ pc' = "split_text_done"
    /\ split_out' = split_text(doc_body)
    /\ UNCHANGED <<doc_body, payload, org_windows, org_blocks, doc_type_matches,
                   next_bounds, results, results_min>>

NextSplit == SplitSumarioAndBody \/ SplitText

SpecSplit == InitSplit /\ [][NextSplit]_vars

\* The stream, read without the detectors' scans
Headings == {i \in 1..Len(doc_body.ents) : doc_body.ents[i].label_ = "Sumario"}
LastHeading == doc_body.ents[SetMax(Headings)]
OrgsAfterHeading ==
    {i \in 1..Len(doc_body.ents) :
        /\ doc_body.ents[i].label_ \in ORG_LIKE_LABELS
        /\ doc_body.ents[i].start_char >= LastHeading.end_char}
FirstOrg == doc_body.ents[SetMin(OrgsAfterHeading)]
LettersKey(i) == _normalize_for_match_letters_only(doc_body.ents[i].text)
FirstOrgKey == _normalize_for_match_letters_only(FirstOrg.text)
LaterEqualOrgs ==
    {i \in OrgsAfterHeading : i > SetMin(OrgsAfterHeading) /\ LettersKey(i) = FirstOrgKey}
\* the later organization-like spans and the junk spans after the heading
\* whose key is the first organization's key or a strictly shorter part of it
RepeatCandidates ==
    {i \in 1..Len(doc_body.ents) :
        /\ \/ i \in OrgsAfterHeading /\ i > SetMin(OrgsAfterHeading)
           \/ /\ doc_body.ents[i].label_ = "JUNK_LABEL"
              /\ doc_body.ents[i].start_char >= LastHeading.end_char
        /\ \/ LettersKey(i) = FirstOrgKey
           \/ IsSubstr(LettersKey(i), FirstOrgKey) /\ Len(LettersKey(i)) < Len(FirstOrgKey)}

TextFrom(s) == Slice(doc_body.text, s, Len(doc_body.text))

OrgsAfterHeadingPos ==
    {i \in 1..Len(doc_body.ents) :
        doc_body.ents[i].label_ \in ORG_LIKE_LABELS /\ i > SetMax(Headings)}
DocNamesAfterFirstOrg ==
    {i \in 1..Len(doc_body.ents) :
        doc_body.ents[i].label_ = "DOC_NAME_LABEL" /\ i > SetMin(OrgsAfterHeadingPos)}
\* a later organization-like span whose letters-only text contains, or is
\* contained in, the first organization's
LaterOrgMatches ==
    LET k == _normalize_for_match_letters_only_02(doc_body.ents[SetMin(OrgsAfterHeadingPos)].text)
    IN  {i \in OrgsAfterHeadingPos :
            /\ i > SetMin(OrgsAfterHeadingPos)
            /\ SubstrEitherWay(_normalize_for_match_letters_only_02(doc_body.ents[i].text), k)}
\* the document names after the first organization that match the first of them
DocNameMatches ==
    LET d == _normalize_for_match_letters_and_digits(doc_body.ents[SetMin(DocNamesAfterFirstOrg)].text)
    IN  {i \in DocNamesAfterFirstOrg :
            SubstrEitherWay(_normalize_for_match_letters_and_digits(doc_body.ents[i].text), d)}
SplitTextNotAnchored ==
    \/ Headings = {}
    \/ OrgsAfterHeadingPos = {}
    \/ /\ LaterOrgMatches = {}
       /\ DocNamesAfterFirstOrg = {} \/ Cardinality(DocNameMatches) < 2

C5_WitnessDocFallback ==
    /\ pc = "split_text_done"
    /\ ~SplitTextNotAnchored
    /\ LaterOrgMatches = {}

\* ------------------------------------------------------------------------
\* Series III: title normalization (utils_text.py)
\* ------------------------------------------------------------------------

\* str.rstrip()
RStrip(s) ==
    LET idx == {i \in 1..Len(s) : ~IsSpace(s[i])}
    IN  IF idx = {} THEN <<>> ELSE SubSeq(s, 1, SetMax(idx))

\* s[:-1].rstrip() when s ends with a colon, else s
DropColon(s) == IF EndsWith(s, <<":">>) THEN RStrip(SubSeq(s, 1, Len(s) - 1)) ELSE s

_normalize_title(s) == DropColon(CollapseWs(Unbold(Strip(s))))

_tighten(s) == DropSpaces(s)

IsLowerAlnum(c) == c \in Lower \cup Digit

_letters_only(s) == SelectSeq(Lowered(Unaccented(s)), IsLowerAlnum)

\* _char_ngrams(s, n)
_char_ngrams(s, n) ==
    IF Len(s) < n THEN (IF s = <<>> THEN {} ELSE {s})
    ELSE {SubSeq(s, i, i + n - 1) : i \in 1..(Len(s) - n + 1)}

\* min(short/long) for containment, in hundredths
LETTERS_MIN_RATIO == 80
NGRAM_N == 3
\* n-gram Jaccard threshold, in hundredths
NGRAM_JACCARD_MIN == 60
MIN_LEN_FOR_NGRAMS == 20

\* _fix_hyphen_linewraps: a hyphen and the white space after it are removed
\* when that white space holds a line break
RECURSIVE _fix_hyphen_linewraps(_)
_fix_hyphen_linewraps(s) ==
    IF s = <<>> THEN <<>>
    ELSE LET rest == Tail(s)
             nonws == {i \in 1..Len(rest) : ~IsSpace(rest[i])}
             run == IF nonws = {} THEN Len(rest) ELSE SetMin(nonws) - 1
             wrapped == s[1] = "-" /\ \E i \in 1..run : rest[i] = "\n"
         IN  IF wrapped
             THEN _fix_hyphen_linewraps(SubSeq(rest, run + 1, Len(rest)))
             ELSE <<s[1]>> \o _fix_hyphen_linewraps(rest)

\* _remove_dot_leaders: runs of three or more dots are removed
RECURSIVE _remove_dot_leaders(_)
_remove_dot_leaders(s) ==
    IF s = <<>> THEN <<>>
    ELSE LET nondot == {i \in 1..Len(s) : s[i] # "."}
             run == IF nondot = {} THEN Len(s) ELSE SetMin(nondot) - 1
         IN  IF run >= 3 THEN _remove_dot_leaders(SubSeq(s, run + 1, Len(s)))
             ELSE IF run >= 1 THEN SubSeq(s, 1, run) \o _remove_dot_leaders(SubSeq(s, run + 1, Len(s)))
             ELSE <<s[1]>> \o _remove_dot_leaders(Tail(s))

\* [A-Za-zÀ-ÿ] and \w over the modelled characters
IsInterLetter(c) == c \in Lower \cup Upper \cup AccLower \cup AccUpper
IsWordChar(c) == IsAlpha(c) \/ c \in Digit

\* the end of the longest match of (letter, white space)+ letter from i that
\* stops at position e: single letters each followed by white space
RECURSIVE InterletterEnds(_, _)
InterletterEnds(s, i) ==
    IF i > Len(s) \/ ~IsInterLetter(s[i]) THEN {}
    ELSE LET after == {j \in (i + 1)..Len(s) : ~IsSpace(s[j])}
             nxt == IF after = {} THEN 0 ELSE SetMin(after)
         IN  {<<i, 1>>} \cup
             (IF nxt > i + 1
              THEN {<<e[1], e[2] + 1>> : e \in InterletterEnds(s, nxt)}
              ELSE {})

\* _collapse_interletter_spacing: three or more single letters standing
\* apart, between word boundaries, are joined
RECURSIVE _collapse_interletter_spacing(_, _)
_collapse_interletter_spacing(s, i) ==
    IF i > Len(s) THEN <<>>
    ELSE LET at_boundary == i = 1 \/ ~IsWordChar(s[i - 1])
             ends == {e \in InterletterEnds(s, i) :
                         /\ e[2] >= 3
                         /\ e[1] = Len(s) \/ ~IsWordChar(s[e[1] + 1])}
             last == SetMax({e[1] : e \in ends})
         IN  IF at_boundary /\ ends # {}
             THEN SelectSeq(SubSeq(s, i, last), LAMBDA c : ~IsSpace(c))
                     \o _collapse_interletter_spacing(s, last + 1)
             ELSE <<s[i]>> \o _collapse_interletter_spacing(s, i + 1)

\* unicodedata NFKC on one character: the ordinal indicator becomes o
NFKC(c) == IF c = "º" THEN "o" ELSE c

_normalize_unicode_spaces(s) == CollapseWs([i \in 1..Len(s) |-> NFKC(s[i])])

_ocr_clean(s) ==
    _normalize_unicode_spaces(
        _collapse_interletter_spacing(_remove_dot_leaders(_fix_hyphen_linewraps(s)), 1))

\* ------------------------------------------------------------------------
\* Series III: header matching (doc_type_match.py).  A payload item is
\* [paragraph_id, org_ids, doc_name, children]; doc_name is the title text,
\* empty when the item has none.  hash(org_ids) is kept as org_ids.
\* Window indices count from 1; 0 stands for None.  A confidence is a
\* fraction <<numerator, denominator>>.
\* ------------------------------------------------------------------------

\* the title texts of the modelled bulletins
T_Aviso5Bold == <<"*","*","A","v","i","s","o"," ","5","*","*">>
T_Aviso5Tight == <<"A","v","i","s","o","5">>
T_Aviso5Colon == <<"A","v","i","s","o"," ","5",":">>
T_Aviso == <<"A","v","i","s","o">>
T_AvisoAcc == <<"A","v","i","s","ó"," ","5">>
T_Aviso5 == <<"A","v","i","s","o"," ","5">>

TitleTexts ==
    {<<>>, T_Aviso5Bold, T_Aviso5Tight, T_Aviso5Colon, T_Aviso, T_AvisoAcc, T_Aviso5, T_Texto}

canon_norm(s) == Lowered(_normalize_title(s))
canon_tight(s) == Lowered(_tighten(_normalize_title(s)))
canon_letters(s) == _letters_only(_normalize_title(s))

\* the four forms in which a title is compared
FormsOfTitle(title) ==
    [title |-> title, norm |-> canon_norm(title), tight |-> canon_tight(title),
     letters |-> canon_letters(title)]

TitleForms(raw) == FormsOfTitle(_normalize_title(raw))

\* the forms of the titles of the modelled bulletins, tabulated once
TitleFormsTable == [raw \in TitleTexts |-> TitleForms(raw)]

FormsOf(raw) == IF raw \in TitleTexts THEN TitleFormsTable[raw] ELSE TitleForms(raw)

_doc_type_key(item) == <<item.paragraph_id, item.org_ids, FormsOf(item.doc_name).title>>

\* one entry of payload_titles
PayloadTitle(item, f) ==
    [key |-> _doc_type_key(item), title |-> f.title,
     norm |-> f.norm, tight |-> f.tight, letters |-> f.letters]

PayloadTitles(pl) ==
    SelectSeq([i \in 1..Len(pl.items) |->
                    PayloadTitle(pl.items[i], FormsOf(pl.items[i].doc_name))],
              LAMBDA pt : pt.title # <<>>)

\* one entry of body_titles
BodyTitle(e, f) ==
    [start |-> e.start_char, end |-> e.end_char,
     title |-> f.title, norm |-> f.norm, tight |-> f.tight, letters |-> f.letters]

BodyTitlesOf(named) ==
    SelectSeq([i \in 1..Len(named) |-> BodyTitle(named[i], FormsOf(named[i].text))],
              LAMBDA bt : bt.title # <<>>)

BodyTitles(doc) == BodyTitlesOf(SelectSeq(doc.ents, LAMBDA e : e.label_ = "DOC_NAME_LABEL"))

\* the value None of a match
NoMatch == [found |-> FALSE, start |-> 0, end |-> 0, window_index |-> 0,
            confidence |-> <<0, 100>>]

_locate_window(pos, windows) ==
    LET hits == {i \in 1..Len(windows) : windows[i].start <= pos /\ pos < windows[i].end}
    IN  IF hits = {} THEN 0 ELSE SetMin(hits)

\* claim: the span is marked claimed and recorded under the key
claim(m, pt_key, bt, confidence, windows) ==
    [matches |-> [m.matches EXCEPT ![pt_key] =
                    [found |-> TRUE, start |-> bt.start, end |-> bt.end,
                     window_index |-> _locate_window(bt.start, windows),
                     confidence |-> confidence]],
     claimed_positions |-> m.claimed_positions \cup {<<bt.start, bt.end>>}]

\* the test of passes 1 to 3
TierEqual(tier, bt, pt) ==
    CASE tier = 1 -> bt.norm = pt.norm /\ bt.norm # <<>>
      [] tier = 2 -> bt.tight = pt.tight /\ bt.tight # <<>>
      [] tier = 3 -> bt.letters # <<>> /\ bt.letters = pt.letters

TierConfidence(tier) ==
    CASE tier = 1 -> <<100, 100>>
      [] tier = 2 -> <<95, 100>>
      [] tier = 3 -> <<90, 100>>

Shorter(a, b) == IF Len(a) <= Len(b) THEN Len(a) ELSE Len(b)
Longer(a, b) == IF Len(a) >= Len(b) THEN Len(a) ELSE Len(b)

\* pass 4: letters-only containment with score >= _LETTERS_MIN_RATIO
ContainedWithRatio(a, b) ==
    /\ a # <<>> /\ b # <<>>
    /\ IsSubstr(a, b) \/ IsSubstr(b, a)
    /\ 100 * Shorter(a, b) >= LETTERS_MIN_RATIO * Longer(a, b)

Unclaimed(m, bts) ==
    {i \in 1..Len(bts) : <<bts[i].start, bts[i].end>> \notin m.claimed_positions}

\* mutant: passes 2 and 3 do not skip a key that is already matched
ExactStep_Overwrite(tier, pt, bts, windows, m) ==
    LET hits == {i \in Unclaimed(m, bts) : TierEqual(tier, bts[i], pt)}
    IN  IF hits = {} THEN m
        ELSE claim(m, pt.key, bts[SetMin(hits)], TierConfidence(tier), windows)

\* one payload title in one of passes 1 to 3; pass 1 does not skip a key
\* that is already matched, passes 2 and 3 do
ExactStep(tier, pt, bts, windows, m) ==
    LET hits == {i \in Unclaimed(m, bts) : TierEqual(tier, bts[i], pt)}
    IN  IF (tier # 1 /\ m.matches[pt.key].found) \/ hits = {} THEN m
        ELSE claim(m, pt.key, bts[SetMin(hits)], TierConfidence(tier), windows)

\* one payload title in pass 4: the best score wins, the first on a tie
RatioStep(pt, bts, windows, m) ==
    LET a == pt.letters
        cands == {i \in Unclaimed(m, bts) : ContainedWithRatio(a, bts[i].letters)}
        better(i, j) ==
            Shorter(a, bts[i].letters) * Longer(a, bts[j].letters)
                > Shorter(a, bts[j].letters) * Longer(a, bts[i].letters)
        best == CHOOSE i \in cands :
                    \A j \in cands \ {i} : better(i, j) \/ (~better(j, i) /\ i < j)
    IN  IF m.matches[pt.key].found \/ cands = {} THEN m
        ELSE claim(m, pt.key, bts[best],
                   <<80 * Shorter(a, bts[best].letters), 100 * Longer(a, bts[best].letters)>>,
                   windows)

RECURSIVE RunPass(_, _, _, _, _)
RunPass(tier, pts, bts, windows, m) ==
    IF pts = <<>> THEN m
    ELSE RunPass(tier, Tail(pts), bts, windows,
                 IF tier = 4 THEN RatioStep(Head(pts), bts, windows, m)
                 ELSE ExactStep(tier, Head(pts), bts, windows, m))

\* sorted(payload_titles, key=len(letters), reverse=True): stable
SortByLettersDesc(pts) ==
    LET n == Len(pts)
        rank(i) == 1 + Cardinality({j \in 1..n :
                        \/ Len(pts[j].letters) > Len(pts[i].letters)
                        \/ Len(pts[j].letters) = Len(pts[i].letters) /\ j < i})
    IN  [k \in 1..n |-> pts[CHOOSE i \in 1..n : rank(i) = k]]

\* matches and claimed_positions before the first pass
EmptyMatches(pts) ==
    [matches |-> [k \in {pts[i].key : i \in 1..Len(pts)} |-> NoMatch],
     claimed_positions |-> {}]

\* the four passes, one after the other
RunPasses(pts, bts, windows) ==
    RunPass(4, SortByLettersDesc(pts), bts, windows,
        RunPass(3, pts, bts, windows,
            RunPass(2, pts, bts, windows,
                RunPass(1, pts, bts, windows, EmptyMatches(pts))))).matches

_match_doc_type_headers(doc, pl, windows) ==
    RunPasses(PayloadTitles(pl), BodyTitles(doc), windows)

\* window index -> (claimed start -> end of the segment that starts there)
_compute_next_bounds_per_window(matches, windows) ==
    LET starts(w) == {matches[k].start : k \in {q \in DOMAIN matches :
                          matches[q].found /\ matches[q].window_index = w}}
        wins == {w \in 1..Len(windows) : starts(w) # {}}
    IN  [w \in wins |->
            [st \in starts(w) |->
                LET later == {x \in starts(w) : x > st}
                IN  IF later # {} THEN SetMin(later) ELSE windows[w].end]]

\* ------------------------------------------------------------------------
\* Series III: organization to window (org_windows.py)
\* ------------------------------------------------------------------------

MIN_SUBSTR == 10

\* s.split(): the maximal runs of characters that are not white space
Tokens(s) ==
    {SubSeq(s, p[1], p[2]) : p \in {q \in (1..Len(s)) \X (1..Len(s)) :
        /\ q[1] <= q[2]
        /\ \A k \in q[1]..q[2] : ~IsSpace(s[k])
        /\ q[1] = 1 \/ IsSpace(s[q[1] - 1])
        /\ q[2] = Len(s) \/ IsSpace(s[q[2] + 1])}}

_simple_token_set(s) == {Lowered(t) : t \in Tokens(s)}

\* _jaccard as the fraction <<|a & b|, |a | b|>>; <<0, 1>> when both are empty
_jaccard(a, b) ==
    IF a \cup b = {} THEN <<0, 1>> ELSE <<Cardinality(a \cap b), Cardinality(a \cup b)>>

\* the tight form and the token set of an organization or window name
OrgForms(name) ==
    [tight |-> Lowered(DropSpaces(_normalize_title(name))),
     tokens |-> _simple_token_set(name)]

\* the forms of the organization names of the modelled bulletins, tabulated once
OrgFormsTable == [name \in OrgTexts |-> OrgForms(name)]
OrgFormsOf(name) == IF name \in OrgTexts THEN OrgFormsTable[name] ELSE OrgForms(name)

\* mutant: the best-scoring window is reported anchored whatever its score
MatchOrgForms_BestAlwaysAnchored(a, b, windows) ==
    LET strict == {i \in 1..Len(windows) :
                    \/ a.tight = b[i].tight
                    \/ Len(a.tight) >= MIN_SUBSTR /\ IsSubstr(a.tight, b[i].tight)
                    \/ Len(b[i].tight) >= MIN_SUBSTR /\ IsSubstr(b[i].tight, a.tight)}
        sc(i) == _jaccard(a.tokens, b[i].tokens)
        best_idx == CHOOSE i \in 1..Len(windows) :
                        \A j \in 1..Len(windows) \ {i} :
                            \/ sc(i)[1] * sc(j)[2] > sc(j)[1] * sc(i)[2]
                            \/ sc(i)[1] * sc(j)[2] = sc(j)[1] * sc(i)[2] /\ i < j
    IN  IF windows = <<>> THEN [win_idx |-> 0, status |-> "org_unanchored"]
        ELSE IF Len(windows) = 1 /\ windows[1].name = GlobalName
        THEN [win_idx |-> 1, status |-> "org_anchored"]
        ELSE IF strict # {} THEN [win_idx |-> SetMin(strict), status |-> "org_anchored"]
        ELSE [win_idx |-> best_idx, status |-> "org_anchored"]

\* the choice of _match_org_to_window on the forms a of the organization
\* and b of the window names
MatchOrgForms(a, b, windows) ==
    LET strict == {i \in 1..Len(windows) :
                    \/ a.tight = b[i].tight
                    \/ Len(a.tight) >= MIN_SUBSTR /\ IsSubstr(a.tight, b[i].tight)
                    \/ Len(b[i].tight) >= MIN_SUBSTR /\ IsSubstr(b[i].tight, a.tight)}
        sc(i) == _jaccard(a.tokens, b[i].tokens)
        best_idx == CHOOSE i \in 1..Len(windows) :
                        \A j \in 1..Len(windows) \ {i} :
                            \/ sc(i)[1] * sc(j)[2] > sc(j)[1] * sc(i)[2]
                            \/ sc(i)[1] * sc(j)[2] = sc(j)[1] * sc(i)[2] /\ i < j
    IN  IF windows = <<>> THEN [win_idx |-> 0, status |-> "org_unanchored"]
        ELSE IF Len(windows) = 1 /\ windows[1].name = GlobalName
        THEN [win_idx |-> 1, status |-> "org_anchored"]
        ELSE IF strict # {} THEN [win_idx |-> SetMin(strict), status |-> "org_anchored"]
        ELSE [win_idx |-> best_idx,
              status |-> IF sc(best_idx)[1] > 0 THEN "org_anchored" ELSE "org_unanchored"]

\* [win_idx, status]; win_idx 0 stands for None
_match_org_to_window(org_name, windows) ==
    MatchOrgForms(OrgFormsOf(org_name),
                  [i \in 1..Len(windows) |-> OrgFormsOf(windows[i].name)], windows)

\* ------------------------------------------------------------------------
\* Series III: sub-segmentation (subdivision.py)
\* ------------------------------------------------------------------------

\* nlp(seg_text): the classifier run again on a segment body[s:e] labels
\* each line as it labelled it in the body; offsets are relative to s
nlp(doc, s, e) ==
    LET inside == SelectSeq(doc.ents, LAMBDA x : s <= x.start_char /\ x.end_char <= e)
    IN  [text |-> Slice(doc.text, s, e),
         ents |-> [i \in 1..Len(inside) |->
                    [label_ |-> inside[i].label_, text |-> inside[i].text,
                     start_char |-> inside[i].start_char - s,
                     end_char |-> inside[i].end_char - s]]]

\* the titles whose tight key no earlier title has
FirstOfEachKey(norms, keys) ==
    LET keep == {i \in 1..Len(norms) : \A j \in 1..(i - 1) : keys[j] # keys[i]}
        nth(k) == CHOOSE i \in keep : Cardinality({j \in keep : j < i}) = k - 1
    IN  [k \in 1..Cardinality(keep) |-> norms[nth(k)]]

\* the non-empty normalized child titles, each once by its tight key
DistinctTitles(norms) ==
    FirstOfEachKey(norms,
        [i \in 1..Len(norms) |-> Lowered(DropSpaces(FormsOf(norms[i]).title))])

\* the distinct normalized child titles of an item, the first of each
\* tight key kept
_allowed_child_titles_for_item(item) ==
    DistinctTitles(SelectSeq([i \in 1..Len(item.children) |->
                                  FormsOf(CollapseWs(item.children[i])).title],
                             LAMBDA t : t # <<>>))

\* "\n".join(titles)
RECURSIVE JoinLines(_)
JoinLines(titles) ==
    IF titles = <<>> THEN <<>>
    ELSE IF Len(titles) = 1 THEN titles[1]
    ELSE titles[1] \o <<"\n">> \o JoinLines(Tail(titles))

\* the forms in which a cleaned title is compared
FormsOfClean(t_norm) ==
    [norm |-> t_norm, tight |-> _tighten(t_norm), letters |-> _letters_only(t_norm)]

CleanForms(raw) == FormsOfClean(_normalize_title(_ocr_clean(raw)))

\* the forms of the normalized titles of the modelled bulletins, tabulated once
CleanTexts == {TitleFormsTable[raw].title : raw \in TitleTexts}
CleanFormsTable == [t \in CleanTexts |-> CleanForms(t)]
CleanFormsOf(raw) == IF raw \in CleanTexts THEN CleanFormsTable[raw] ELSE CleanForms(raw)

\* the first allowed title (0 for none) that a cleaned title of forms b
\* matches by the tiers: normalized, tight, letters-only, containment,
\* n-grams; a holds the forms of the allowed titles
FirstAllowedFor(b, a, norm_may_be_empty) ==
    LET idx == 1..Len(a)
        t1 == {i \in idx : (norm_may_be_empty \/ b.norm # <<>>) /\ b.norm = a[i].norm}
        t2 == {i \in idx : b.tight # <<>> /\ b.tight = a[i].tight}
        t3 == {i \in idx : b.letters # <<>> /\ b.letters = a[i].letters}
        t4 == {i \in idx : ContainedWithRatio(b.letters, a[i].letters)}
        j(i) == _jaccard(_char_ngrams(b.letters, NGRAM_N), _char_ngrams(a[i].letters, NGRAM_N))
        t5 == {i \in idx :
                /\ Len(b.letters) >= MIN_LEN_FOR_NGRAMS
                /\ Len(a[i].letters) >= MIN_LEN_FOR_NGRAMS
                /\ 100 * j(i)[1] >= NGRAM_JACCARD_MIN * j(i)[2]}
        best5 == CHOOSE i \in t5 : \A k \in t5 \ {i} :
                    \/ j(i)[1] * j(k)[2] > j(k)[1] * j(i)[2]
                    \/ j(i)[1] * j(k)[2] = j(k)[1] * j(i)[2] /\ i < k
    IN  IF t1 # {} THEN SetMin(t1)
        ELSE IF t2 # {} THEN SetMin(t2)
        ELSE IF t3 # {} THEN SetMin(t3)
        ELSE IF t4 # {} THEN SetMin(t4)
        ELSE IF t5 # {} THEN best5
        ELSE 0

\* the joined block is tried first, then each title of the block in order
CanonicalOf(allowed_titles, joined, per) ==
    LET hit == {k \in 1..Len(per) : per[k] # 0}
    IN  IF allowed_titles = <<>> THEN <<>>
        ELSE IF joined # 0 THEN <<allowed_titles[joined]>>
        ELSE IF hit # {} THEN <<allowed_titles[per[SetMin(hit)]]>>
        ELSE <<>>

PickWithForms(block_titles, allowed_titles, a) ==
    CanonicalOf(allowed_titles,
                FirstAllowedFor(CleanFormsOf(JoinLines(block_titles)), a, FALSE),
                [k \in 1..Len(block_titles) |->
                    FirstAllowedFor(CleanFormsOf(block_titles[k]), a, TRUE)])

\* the canonical allowed title of a header block, <<>> for None
_pick_canonical_from_block(block_titles, allowed_titles) ==
    PickWithForms(block_titles, allowed_titles,
                  [i \in 1..Len(allowed_titles) |-> CleanFormsOf(allowed_titles[i])])

\* the runs of consecutive DOC_NAME_LABEL spans, as [start, end, titles]
RECURSIVE HeaderBlocks(_, _)
HeaderBlocks(ents, i) ==
    IF i > Len(ents) THEN <<>>
    ELSE IF ents[i].label_ # "DOC_NAME_LABEL" THEN HeaderBlocks(ents, i + 1)
    ELSE LET others == {k \in i..Len(ents) : ents[k].label_ # "DOC_NAME_LABEL"}
             last == IF others = {} THEN Len(ents) ELSE SetMin(others) - 1
         IN  <<[start |-> ents[i].start_char, end |-> ents[last].end_char,
                titles |-> [k \in 1..(last - i + 1) |-> FormsOf(ents[i + k - 1].text).title]]>>
             \o HeaderBlocks(ents, last + 1)

\* the header blocks with the canonical allowed title of each
CanonBlocks(header_blocks, allowed_titles) ==
    [i \in 1..Len(header_blocks) |->
        [start |-> header_blocks[i].start, end |-> header_blocks[i].end,
         titles |-> header_blocks[i].titles,
         canon |-> _pick_canonical_from_block(header_blocks[i].titles, allowed_titles)]]

\* mutant: a sub-slice stops at the next header block, approved or not
SubSlices_ToNextBlock(seg_text, header_blocks) ==
    LET approved == SelectSeq(header_blocks, LAMBDA hb : hb.canon # <<>>)
        body_start == IF header_blocks # <<>> THEN header_blocks[1].end ELSE 0
        after(hb) == {b.start : b \in {header_blocks[k] : k \in 1..Len(header_blocks)}}
                        \cap {x \in 0..Len(seg_text) : x > hb.start}
    IN  IF approved = <<>>
        THEN <<[title |-> IF header_blocks # <<>> THEN header_blocks[1].titles[1] ELSE <<>>,
                headers |-> IF header_blocks # <<>> THEN header_blocks[1].titles ELSE <<>>,
                body |-> Slice(seg_text, body_start, Len(seg_text)),
                start |-> body_start, end |-> Len(seg_text)]>>
        ELSE [i \in 1..Len(approved) |->
                LET next_start == IF after(approved[i]) # {}
                                  THEN SetMin(after(approved[i])) ELSE Len(seg_text)
                IN  [title |-> approved[i].canon[1],
                     headers |-> approved[i].titles,
                     body |-> Slice(seg_text, approved[i].end, next_start),
                     start |-> approved[i].end, end |-> next_start]]

\* one sub-slice per approved header block, or one catch-all slice when no
\* block is approved
SubSlices(seg_text, header_blocks) ==
    LET approved == SelectSeq(header_blocks, LAMBDA hb : hb.canon # <<>>)
        body_start == IF header_blocks # <<>> THEN header_blocks[1].end ELSE 0
    IN  IF approved = <<>>
        THEN <<[title |-> IF header_blocks # <<>> THEN header_blocks[1].titles[1] ELSE <<>>,
                headers |-> IF header_blocks # <<>> THEN header_blocks[1].titles ELSE <<>>,
                body |-> Slice(seg_text, body_start, Len(seg_text)),
                start |-> body_start, end |-> Len(seg_text)]>>
        ELSE [i \in 1..Len(approved) |->
                LET next_start == IF i + 1 <= Len(approved)
                                  THEN approved[i + 1].start ELSE Len(seg_text)
                IN  [title |-> approved[i].canon[1],
                     headers |-> approved[i].titles,
                     body |-> Slice(seg_text, approved[i].end, next_start),
                     start |-> approved[i].end, end |-> next_start]]

\* the sub-slices of body[s:e]
_subdivide_seg_text_by_allowed_headers(doc, s, e, allowed_titles) ==
    SubSlices(Slice(doc.text, s, e),
              CanonBlocks(HeaderBlocks(SortByStart(nlp(doc, s, e).ents), 1), allowed_titles))

\* ------------------------------------------------------------------------
\* Series III: the segmenter (payload_utils.py, segmenter.py)
\* ------------------------------------------------------------------------

SemOrganizacao == <<"(","S","e","m"," ","o","r","g","a","n","i","z","a","ç","ã","o",")">>

\* _build_org_map, as the sequence of [id, name] in insertion order
_build_org_map(pl) ==
    IF pl.orgs = <<>> THEN <<[id |-> -1, name |-> SemOrganizacao]>>
    ELSE [i \in 1..Len(pl.orgs) |-> [id |-> pl.orgs[i].id, name |-> Strip(pl.orgs[i].text)]]

\* _group_items_by_org and the sort by paragraph_id, for one organization
ItemsOfOrg(pl, org_id) ==
    LET mine == SelectSeq(pl.items,
                    LAMBDA it : \E k \in 1..Len(it.org_ids) : it.org_ids[k] = org_id)
        n == Len(mine)
        rank(i) == 1 + Cardinality({j \in 1..n :
                        \/ mine[j].paragraph_id < mine[i].paragraph_id
                        \/ mine[j].paragraph_id = mine[i].paragraph_id /\ j < i})
    IN  [k \in 1..n |-> mine[CHOOSE i \in 1..n : rank(i) = k]]

\* doc_type_matches.get(key)
MatchOfKey(matches, key) == IF key \in DOMAIN matches THEN matches[key] ELSE NoMatch

MatchOf(matches, item) == MatchOfKey(matches, _doc_type_key(item))

\* mutant: no segment is reparsed
SubsOf_NoReparse(doc, s, e, item) == <<>>

\* the sub-slices of a segment body[s:e] of an item, none for a blank segment
SubsOf(doc, s, e, item) ==
    IF Strip(Slice(doc.text, s, e)) # <<>>
    THEN _subdivide_seg_text_by_allowed_headers(doc, s, e, _allowed_child_titles_for_item(item))
    ELSE <<>>

EmptyName == <<"(","E","m","p","t","y",")">>

\* mutant: every segment runs to the end of its window
SegmentEnd_WindowEnd(doc, windows, bounds, mt) ==
    IF mt.window_index # 0
    THEN windows[mt.window_index].end
    ELSE Len(doc.text)

\* the end of the segment of a matched header
SegmentEnd(doc, windows, bounds, mt) ==
    IF mt.window_index # 0
    THEN IF mt.window_index \in DOMAIN bounds /\ mt.start \in DOMAIN bounds[mt.window_index]
         THEN bounds[mt.window_index][mt.start]
         ELSE windows[mt.window_index].end
    ELSE Len(doc.text)

\* the DocSlice of a segment body[s:e]
Segment(doc, item, name, s, e, status, confidence) ==
    [doc_name |-> name, text |-> Slice(doc.text, s, e), status |-> status,
     confidence |-> confidence, subs |-> SubsOf(doc, s, e, item)]

\* mutant: case A is taken without looking at the title
SliceOfCase_WindowForUnanchored(doc, windows, bounds, item, win_idx, title, mt) ==
    IF ~mt.found /\ win_idx # 0
    THEN Segment(doc, item, EmptyName, windows[win_idx].start, windows[win_idx].end,
                 "doc_children_segment", <<50, 100>>)
    ELSE IF ~mt.found
    THEN [doc_name |-> title, text |-> <<>>, status |-> "doc_type_unanchored",
          confidence |-> <<0, 100>>, subs |-> <<>>]
    ELSE Segment(doc, item, title, mt.end, SegmentEnd(doc, windows, bounds, mt),
                 "doc_type_segment", mt.confidence)

\* cases A, B and C for an item of normalized title title and match mt
SliceOfCase(doc, windows, bounds, item, win_idx, title, mt) ==
    IF ~mt.found /\ title = <<>> /\ win_idx # 0
    THEN Segment(doc, item, EmptyName, windows[win_idx].start, windows[win_idx].end,
                 "doc_children_segment", <<50, 100>>)
    ELSE IF ~mt.found
    THEN [doc_name |-> title, text |-> <<>>, status |-> "doc_type_unanchored",
          confidence |-> <<0, 100>>, subs |-> <<>>]
    ELSE Segment(doc, item, title, mt.end, SegmentEnd(doc, windows, bounds, mt),
                 "doc_type_segment", mt.confidence)

\* the DocSlice of one item under one organization
DocSliceOf(doc, windows, matches, bounds, item, win_idx) ==
    SliceOfCase(doc, windows, bounds, item, win_idx,
                FormsOf(item.doc_name).title, MatchOf(matches, item))

\* the OrgResult of one organization matched to window w
OrgResult(doc, windows, matches, bounds, org_name, w, items) ==
    [org |-> org_name, status |-> w.status,
     docs |-> [i \in 1..Len(items) |->
                DocSliceOf(doc, windows, matches, bounds, items[i], w.win_idx)]]

OrgResultsOf(doc, pl, windows, matches, bounds, org_map) ==
    [o \in 1..Len(org_map) |->
        OrgResult(doc, windows, matches, bounds, org_map[o].name,
                  _match_org_to_window(org_map[o].name, windows),
                  ItemsOfOrg(pl, org_map[o].id))]

\* the main loop: one OrgResult per organization of the payload
OrgResults(doc, pl, windows, matches, bounds) ==
    OrgResultsOf(doc, pl, windows, matches, bounds, _build_org_map(pl))

\* s.replace("\n", " ")
NewlinesToSpaces(s) == [i \in 1..Len(s) |-> IF s[i] = "\n" THEN " " ELSE s[i]]

\* the titled sub-slices of a sequence of DocSlices, flattened in order
RECURSIVE FlattenDocs(_, _)
FlattenDocs(org_name, docs) ==
    IF docs = <<>> THEN <<>>
    ELSE LET titled == SelectSeq(Head(docs).subs, LAMBDA sb : sb.title # <<>>)
         IN  [i \in 1..Len(titled) |->
                [title |-> titled[i].title,
                 text |-> IF titled[i].body # <<>>
                          THEN org_name \o <<"\n">> \o titled[i].title
                                   \o <<"\n", "\n">> \o titled[i].body
                          ELSE titled[i].title]]
             \o FlattenDocs(org_name, Tail(docs))

\* the minimal output: per organization, the titled sub-slices of its docs
ResultsMin(rs) ==
    [o \in 1..Len(rs) |->
        [org |-> NewlinesToSpaces(rs[o].org),
         docs |-> FlattenDocs(NewlinesToSpaces(rs[o].org), rs[o].docs)]]

\* ------------------------------------------------------------------------
\* The Series III segmenter run on one body and one payload (Spec)
\* ------------------------------------------------------------------------

MaxBodyEnts == 3
MaxItems == 2

SegmentPieces ==
    {Piece("ORG_LABEL", T_SecRegional), Piece("DOC_NAME_LABEL", T_Aviso5Bold),
     Piece("DOC_NAME_LABEL", T_Aviso5Tight), Piece("PARAGRAPH", T_Texto)}

SegmentOrgs == OrgsOfTexts(<<T_SecRegionalSaude, T_Camara>>)

Item(pid, oids, name, kids) ==
    [paragraph_id |-> pid, org_ids |-> oids, doc_name |-> name, children |-> kids]

ItemOptions ==
    {Item(1, <<1>>, T_Aviso5Colon, <<>>),
     Item(2, <<1>>, T_Aviso, <<>>),
     Item(2, <<1, 2>>, <<>>, <<T_Aviso5>>),
     Item(1, <<1>>, T_AvisoAcc, <<>>)}

Init ==
    /\ pc = "segment_start"
    /\ doc_body \in {DocOf(ps) : ps \in SeqsUpTo(SegmentPieces, MaxBodyEnts)}
    /\ payload \in {[orgs |-> SegmentOrgs, items |-> its] : its \in SeqsUpTo(ItemOptions, MaxItems)}
    /\ org_windows = Unset
    /\ org_blocks = Unset
    /\ doc_type_matches = Unset
    /\ next_bounds = Unset
    /\ results = Unset
    /\ results_min = Unset
    /\ split_out = Unset

\* divide_body_by_org_and_docs_serieIII: preparation, main loop and the
\* minimal output, with reparse_segments and subdivide_children as defaulted
DivideBodyByOrgAndDocsSerieIII ==
    /\ pc = "segment_start"
    /\ pc' = "segment_done"
    /\ org_windows' = _collect_org_windows_from_ents(doc_body, AllowedOrgs(payload))
    /\ doc_type_matches' = _match_doc_type_headers(doc_body, payload, org_windows')
    /\ next_bounds' = _compute_next_bounds_per_window(doc_type_matches', org_windows')
    /\ results' = OrgResults(doc_body, payload, org_windows', doc_type_matches', next_bounds')
    /\ results_min' = ResultsMin(results')
    /\ UNCHANGED <<doc_body, payload, org_blocks, split_out>>

Next == DivideBodyByOrgAndDocsSerieIII

Spec == Init /\ [][Next]_vars

\* the slices of the run, row by row: <<o, i>> is the i-th item of the o-th
\* organization of the payload
SliceRows == {<<o, i>> : o \in 1..Len(results), i \in 1..MaxItems} \cap
             {r \in (1..Len(results)) \X (1..MaxItems) : r[2] <= Len(results[r[1]].docs)}
ItemAt(r) == ItemsOfOrg(payload, _build_org_map(payload)[r[1]].id)[r[2]]
SliceAt(r) == results[r[1]].docs[r[2]]
TitleOf(item) == FormsOf(item.doc_name).title
Anchor(item) == MatchOf(doc_type_matches, item)
AnchoredItems == {k \in 1..Len(payload.items) : Anchor(payload.items[k]).found}

\* C2 (as stated): after a full run no body document-name span is the
\* matched header of more than one payload item.
C2_AtMostOneClaim ==
    pc = "segment_done" =>
        \A j, k \in AnchoredItems :
            j # k =>
                <<Anchor(payload.items[j]).start, Anchor(payload.items[j]).end>>
                    # <<Anchor(payload.items[k]).start, Anchor(payload.items[k]).end>>

\* the body title span a match stands on
SpanOf(mt) ==
    LET bts == BodyTitles(doc_body)
    IN  bts[CHOOSE i \in 1..Len(bts) : bts[i].start = mt.start /\ bts[i].end = mt.end]

\* the confidence of the first tier by which a title and a span agree
ConfidenceOfTier(item, mt) ==
    LET pt == FormsOf(item.doc_name)
        bt == SpanOf(mt)
    IN  IF bt.norm = pt.norm THEN <<100, 100>>
        ELSE IF bt.tight = pt.tight THEN <<95, 100>>
        ELSE IF bt.letters = pt.letters THEN <<90, 100>>
        ELSE <<80 * Shorter(pt.letters, bt.letters), 100 * Longer(pt.letters, bt.letters)>>

\* the starts of the matched headers of the payload items in window w
ClaimedStartsIn(w) ==
    {Anchor(payload.items[k]).start :
        k \in {j \in AnchoredItems : Anchor(payload.items[j]).window_index = w}}

WindowsHolding(pos) ==
    {w \in 1..Len(org_windows) : org_windows[w].start <= pos /\ pos < org_windows[w].end}

\* the start of the next claimed header of the same window, else the
\* window's end
EndInWindow(mt) ==
    LET later == {x \in ClaimedStartsIn(mt.window_index) : x > mt.start}
    IN  IF later # {} THEN SetMin(later) ELSE org_windows[mt.window_index].end

WindowOfRow(r) == _match_org_to_window(results[r[1]].org, org_windows).win_idx

WindowText(w) == Slice(doc_body.text, org_windows[w].start, org_windows[w].end)

TierRelated(pt, bt) ==
    \/ bt.norm # <<>> /\ bt.norm = pt.norm
    \/ bt.tight # <<>> /\ bt.tight = pt.tight
    \/ bt.letters # <<>> /\ bt.letters = pt.letters
    \/ ContainedWithRatio(pt.letters, bt.letters)

RelatedSpans(item) ==
    LET bts == BodyTitles(doc_body)
    IN  {<<bts[i].start, bts[i].end>> : i \in {k \in 1..Len(bts) :
            TierRelated(FormsOf(item.doc_name), bts[k])}}

AnchorSpans(ks) == {<<Anchor(payload.items[k]).start, Anchor(payload.items[k]).end>> : k \in ks}

PayloadKeysDistinct ==
    \A j, k \in 1..Len(payload.items) :
        j # k => _doc_type_key(payload.items[j]) # _doc_type_key(payload.items[k])

C9_AnchoredSliceHasDocument ==
    pc = "segment_done" =>
        /\ Len(results_min) = Len(payload.orgs)
        /\ \A r \in SliceRows :
              (SliceAt(r).status = "doc_type_segment" /\ SliceAt(r).text # <<>>) =>
                  FlattenDocs(results_min[r[1]].org, <<SliceAt(r)>>) # <<>>

\* ------------------------------------------------------------------------
\* Series I/II: document titles (normalization.py) and the slicing of one
\* organization block into documents (extract.py)
\* ------------------------------------------------------------------------

\* re.sub(r"\s+", " ", s).strip()
_collapse_spaces(s) == CollapseWs(s)

\* caps, local to _join_spaced_caps
Caps == Upper \cup AccUpper

\* one pass of re.sub over ([caps])\s(?=[caps]) from index i: a whitespace
\* character between two capitals is dropped
RECURSIVE JoinCapsFrom(_, _)
JoinCapsFrom(s, i) ==
    IF i > Len(s) THEN <<>>
    ELSE IF /\ IsSpace(s[i])
            /\ i > 1
            /\ i < Len(s)
            /\ s[i - 1] \in Caps
            /\ s[i + 1] \in Caps
         THEN JoinCapsFrom(s, i + 1)
         ELSE <<s[i]>> \o JoinCapsFrom(s, i + 1)

\* the loop runs the pass until nothing changes
RECURSIVE _join_spaced_caps(_)
_join_spaced_caps(s) ==
    IF JoinCapsFrom(s, 1) = s THEN s ELSE _join_spaced_caps(JoinCapsFrom(s, 1))

normalize_text(s) == _join_spaced_caps(_collapse_spaces(_strip_markdown_bold(s)))

\* what the numbering pattern accepts between the n and the digit, its
\* whitespace left out: (?: [\.\-] )? (?: º | o )? under (?i)
NumberMarks ==
    {a \o b : a \in {<<>>, <<".">>, <<"-">>}, b \in {<<>>, <<"º">>, <<"o">>, <<"O">>}}

\* the index of the digit at which the numbering pattern's match at i stops,
\* 0 when the pattern does not match at i
NumberTokenEnd(s, i) ==
    IF ~(s[i] \in {"n", "N"} /\ (i = 1 \/ ~IsWordChar(s[i - 1]))) THEN 0
    ELSE LET ds == {d \in (i + 1)..Len(s) : s[d] \in Digit}
         IN  IF ds = {} THEN 0
             ELSE IF SelectSeq(SubSeq(s, i + 1, SetMin(ds) - 1),
                               LAMBDA c : ~IsSpace(c)) \in NumberMarks
                  THEN SetMin(ds)
                  ELSE 0

\* re.sub of the numbering pattern by "", from index i
RECURSIVE DropNumberTokens(_, _)
DropNumberTokens(s, i) ==
    IF i > Len(s) THEN <<>>
    ELSE IF NumberTokenEnd(s, i) # 0 THEN DropNumberTokens(s, NumberTokenEnd(s, i))
    ELSE <<s[i]>> \o DropNumberTokens(s, i + 1)

\* the index after the run of whitespace that starts at i
RECURSIVE WsRunEnd(_, _)
WsRunEnd(s, i) ==
    IF i <= Len(s) /\ IsSpace(s[i]) THEN WsRunEnd(s, i + 1) ELSE i

\* re.sub(r"(?<=\D)\s*(?=\d)", " ", s) from index i: a non-empty match is
\* followed by an empty one at the digit, and each is replaced
RECURSIVE SpaceBeforeNumber(_, _)
SpaceBeforeNumber(s, i) ==
    IF i > Len(s) THEN <<>>
    ELSE IF /\ i > 1
            /\ s[i - 1] \notin Digit
            /\ WsRunEnd(s, i) <= Len(s)
            /\ s[WsRunEnd(s, i)] \in Digit
         THEN IF WsRunEnd(s, i) > i
              THEN <<" ">> \o SpaceBeforeNumber(s, WsRunEnd(s, i))
              ELSE <<" ", s[i]>> \o SpaceBeforeNumber(s, i + 1)
         ELSE <<s[i]>> \o SpaceBeforeNumber(s, i + 1)

\* re.sub(r"\s*/\s*", "/", s) from index i
RECURSIVE TightSlashes(_, _)
TightSlashes(s, i) ==
    IF i > Len(s) THEN <<>>
    ELSE IF WsRunEnd(s, i) <= Len(s) /\ s[WsRunEnd(s, i)] = "/"
         THEN <<"/">> \o TightSlashes(s, WsRunEnd(s, WsRunEnd(s, i) + 1))
         ELSE <<s[i]>> \o TightSlashes(s, i + 1)

normalize_doc_title(s) ==
    Strip(TightSlashes(SpaceBeforeNumber(DropNumberTokens(normalize_text(s), 1), 1), 1))

\* normalize_doc_title of the text of each element
TitleNorms(xs) == [k \in 1..Len(xs) |-> normalize_doc_title(xs[k].text)]

_spans_within(spans, start, end, labels) ==
    SelectSeq(spans, LAMBDA sp :
        start <= sp.start_char /\ sp.start_char < end /\ sp.label_ \in labels)

DocSlice(doc_name, text) == [doc_name |-> doc_name, text |-> text]

\* _strip_markdown_bold(raw).strip()
CleanName(raw) == Strip(_strip_markdown_bold(raw))

\* _slice_end, local to _slice_docs_in_block
_slice_end(heads, head_norms, json_name_set, bend, start_char) ==
    LET later == {k \in 1..Len(heads) :
                    heads[k].start_char > start_char /\ head_norms[k] \in json_name_set}
    IN  IF later = {} THEN bend ELSE heads[SetMin(later)].start_char

\* the slice that starts at the k-th header
HeadSlice(doc_text, heads, head_norms, json_name_set, bend, k, doc_name) ==
    DocSlice(doc_name,
             Slice(doc_text, heads[k].start_char,
                   _slice_end(heads, head_norms, json_name_set, bend, heads[k].start_char)))

\* the for loop over the expected documents from the k-th on, i_ptr being
\* the index of the next header to look at
RECURSIVE MatchInOrder(_, _, _, _, _, _, _, _)
MatchInOrder(doc_text, heads, head_norms, json_docs, json_doc_names, bend, k, i_ptr) ==
    IF k > Len(json_docs) THEN [matched_slices |-> <<>>, unmatched_docs |-> <<>>]
    ELSE LET hits == {p \in i_ptr..Len(heads) : head_norms[p] = json_doc_names[k]}
         IN  IF hits # {}
             THEN LET rest == MatchInOrder(doc_text, heads, head_norms, json_docs,
                                           json_doc_names, bend, k + 1, SetMin(hits) + 1)
                  IN  [matched_slices |->
                          <<HeadSlice(doc_text, heads, head_norms, Range(json_doc_names),
                                      bend, SetMin(hits), CleanName(json_docs[k].text))>>
                              \o rest.matched_slices,
                       unmatched_docs |-> rest.unmatched_docs]
             ELSE LET rest == MatchInOrder(doc_text, heads, head_norms, json_docs,
                                           json_doc_names, bend, k + 1, Len(heads) + 1)
                  IN  [matched_slices |-> rest.matched_slices,
                       unmatched_docs |-> <<json_docs[k].text>> \o rest.unmatched_docs]

\* the slices of the headers at the given indexes, named after the headers
HeaderSlices(doc_text, heads, head_norms, json_name_set, bend, idx) ==
    [n \in 1..Len(idx) |->
        HeadSlice(doc_text, heads, head_norms, json_name_set, bend, idx[n],
                  CleanName(heads[idx[n]].text))]

\* the fallbacks taken when the loop matched nothing and the block has headers
Fallbacks(doc_text, bstart, bend, json_docs, json_doc_names, heads, head_norms, first) ==
    IF ~(first.matched_slices = <<>> /\ heads # <<>>) THEN first
    ELSE LET all == [k \in 1..Len(heads) |-> k]
             matching_headers ==
                 SelectSeq(all, LAMBDA k : head_norms[k] \in Range(json_doc_names))
         IN  IF matching_headers # <<>>
             THEN [matched_slices |->
                      HeaderSlices(doc_text, heads, head_norms, Range(json_doc_names),
                                   bend, matching_headers),
                   unmatched_docs |->
                      LET matched_norms == {head_norms[matching_headers[n]] :
                                                n \in 1..Len(matching_headers)}
                          left == SelectSeq([k \in 1..Len(json_docs) |-> k],
                                      LAMBDA k : json_doc_names[k] \notin matched_norms)
                      IN  [n \in 1..Len(left) |-> json_docs[left[n]].text]]
             ELSE IF Len(json_docs) = 1
             THEN [matched_slices |->
                      <<DocSlice(CleanName(json_docs[1].text), Slice(doc_text, bstart, bend))>>,
                   unmatched_docs |-> <<>>]
             ELSE [matched_slices |->
                      HeaderSlices(doc_text, heads, head_norms, Range(json_doc_names),
                                   bend, all),
                   unmatched_docs |-> [k \in 1..Len(json_docs) |-> json_docs[k].text]]

\* the status of the block and the returned tuple
SlicedWithStatus(json_docs, out) ==
    [matched_slices |-> out.matched_slices,
     unmatched_docs |-> out.unmatched_docs,
     status |-> IF Len(json_docs) = 0 THEN "ok"
                ELSE IF out.matched_slices # <<>> /\ out.unmatched_docs # <<>> THEN "partial"
                ELSE IF out.matched_slices = <<>> THEN "doc_missing"
                ELSE "ok",
     matched_count |-> Len(out.matched_slices)]

\* _slice_docs_in_block on the block's headers and the normalized titles
SliceDocs(doc_text, bstart, bend, json_docs, json_doc_names, heads, head_norms) ==
    IF heads = <<>> /\ Len(json_docs) = 1
    THEN [matched_slices |->
             <<DocSlice(CleanName(json_docs[1].text), Slice(doc_text, bstart, bend))>>,
          unmatched_docs |-> <<>>,
          status |-> "ok",
          matched_count |-> 1]
    ELSE SlicedWithStatus(json_docs,
             Fallbacks(doc_text, bstart, bend, json_docs, json_doc_names, heads, head_norms,
                 MatchInOrder(doc_text, heads, head_norms, json_docs, json_doc_names,
                              bend, 1, 1)))

SliceDocsOfHeads(doc_text, bstart, bend, json_docs, heads) ==
    SliceDocs(doc_text, bstart, bend, json_docs, TitleNorms(json_docs), heads,
              TitleNorms(heads))

_slice_docs_in_block(doc_text, spans, bstart, bend, json_docs) ==
    SliceDocsOfHeads(doc_text, bstart, bend, json_docs,
        SortByStart(_spans_within(spans, bstart, bend, {DOC_NAME_LABEL})))

\* ------------------------------------------------------------------------
\* Series I/II: divide_body_by_org_and_docs on a flat payload (extract.py)
\* ------------------------------------------------------------------------

\* _build_blocks_coalesced_from_doc: the same scan over the spans of doc.ents
\* that carry one of the given labels
_build_blocks_coalesced_from_doc(doc, doc_text, labels, valid_org_keys) ==
    BlocksOfAnchors(
        CoalescedAnchors(doc_text,
            SortByStart(SelectSeq(doc.ents, LAMBDA e : e.label_ \in labels)),
            valid_org_keys, 1),
        Len(doc_text))

\* json_org_keys
JsonOrgKeys(items) == {_org_key(items[i].org.text) : i \in 1..Len(items)}

\* the keys of the anchors of a sequence of blocks
BlockKeys(blocks) == [k \in 1..Len(blocks) |-> _org_key(blocks[k].span.text)]

\* the first block of the given key as <<block>>, <<>> when there is none
FirstBlockOfKey(blocks, keys, key) ==
    LET hits == {k \in 1..Len(blocks) : keys[k] = key}
    IN  IF hits = {} THEN <<>> ELSE <<blocks[SetMin(hits)]>>

\* mutant: the first primary block is taken, whatever its key
body_org_lookup_FirstBlock(blocks, keys, fallback_blocks, fallback_keys, missing_keys, key) ==
    IF blocks # <<>> THEN <<blocks[1]>> ELSE <<>>

\* body_org_lookup after both passes, at one key: the first primary block of
\* the key, else the first block the ignored labels give for it
body_org_lookup(blocks, keys, fallback_blocks, fallback_keys, missing_keys, key) ==
    IF FirstBlockOfKey(blocks, keys, key) # <<>>
    THEN FirstBlockOfKey(blocks, keys, key)
    ELSE IF key \in missing_keys
    THEN FirstBlockOfKey(fallback_blocks, fallback_keys, key)
    ELSE <<>>

OrgBlockResult(org, org_block_text, docs, status) ==
    [org |-> org, org_block_text |-> org_block_text, docs |-> docs, status |-> status]

\* the record of one payload item, found being its entry of body_org_lookup
FlatResult(doc_text, spans, item, found) ==
    IF found # <<>>
    THEN LET sliced == _slice_docs_in_block(doc_text, spans, found[1].start,
                                            found[1].end, item.docs)
         IN  OrgBlockResult(CleanName(item.org.text),
                            Slice(doc_text, found[1].start, found[1].end),
                            sliced.matched_slices, sliced.status)
    ELSE OrgBlockResult(CleanName(item.org.text), <<>>, <<>>, "org_missing")

\* the main loop over the items
FlatResultsOf(doc_text, spans, items, blocks, keys, fallback_blocks, fallback_keys, missing_keys) ==
    [i \in 1..Len(items) |->
        FlatResult(doc_text, spans, items[i],
            body_org_lookup(blocks, keys, fallback_blocks, fallback_keys, missing_keys,
                            _org_key(items[i].org.text)))]

FlatWithFallback(doc, spans, items, blocks, keys, fallback_blocks, missing_keys) ==
    FlatResultsOf(doc.text, spans, items, blocks, keys, fallback_blocks,
                  BlockKeys(fallback_blocks), missing_keys)

\* the fallback blocks are built when a key of the payload has no block
FlatWithKeys(doc, spans, items, blocks, keys, missing_keys) ==
    FlatWithFallback(doc, spans, items, blocks, keys,
        IF missing_keys # {}
        THEN _build_blocks_coalesced_from_doc(doc, doc.text, IGNORE_LABELS, missing_keys)
        ELSE <<>>,
        missing_keys)

FlatWithBlocks(doc, spans, items, blocks, keys) ==
    FlatWithKeys(doc, spans, items, blocks, keys, JsonOrgKeys(items) \ Range(keys))

\* results of the flat mode, blocks being org_blocks
FlatResults(doc, items, blocks) ==
    FlatWithBlocks(doc, _collect_spans(doc), items, blocks, BlockKeys(blocks))

\* sub_org of a record without extras
None == <<>>

\* the documents of one entry of results_reduzed; a sub_org that is None,
\* empty or "null" adds no line to the text
ReducedDocs(org, sub_org, docs) ==
    [k \in 1..Len(docs) |->
        [title |-> docs[k].doc_name,
         sub_org |-> sub_org,
         text |-> org \o <<"\n">>
                     \o (IF sub_org \in {None, <<"n", "u", "l", "l">>}
                         THEN <<>> ELSE sub_org \o <<"\n">>)
                     \o docs[k].doc_name \o <<"\n", "\n">> \o docs[k].text]]

\* results_reduzed: a record with extras carries its sub_org
ResultsReduzed(rs) ==
    [o \in 1..Len(rs) |->
        IF "extras" \in DOMAIN rs[o]
        THEN [org |-> NewlinesToSpaces(rs[o].org),
              docs |-> ReducedDocs(NewlinesToSpaces(rs[o].org), rs[o].extras.sub_org,
                                   rs[o].docs),
              sub_org |-> rs[o].extras.sub_org]
        ELSE [org |-> NewlinesToSpaces(rs[o].org),
              docs |-> ReducedDocs(NewlinesToSpaces(rs[o].org), None, rs[o].docs)]]

\* ------------------------------------------------------------------------
\* Series I/II: divide_body_by_org_and_docs on a hierarchical payload
\* (extract.py)
\* ------------------------------------------------------------------------

\* the spans of the given labels that start in [bstart, bend), by start
SpansInRange(spans, bstart, bend, labels) ==
    SortByStart(SelectSeq(spans, LAMBDA sp :
        sp.label_ \in labels /\ bstart <= sp.start_char /\ sp.start_char < bend))

_collect_suborg_anchors_coalesced(doc_text, spans, bstart, bend, valid_suborg_keys) ==
    SortByStart(CoalescedAnchors(doc_text,
        SpansInRange(spans, bstart, bend, ORG_LIKE_LABELS), valid_suborg_keys, 1))

_collect_anchors_coalesced_in_range(doc, doc_text, bstart, bend, valid_keys, labels) ==
    SortByStart(CoalescedAnchors(doc_text,
        SpansInRange(doc.ents, bstart, bend, labels), valid_keys, 1))

\* top_org_keys
TopOrgKeys(items) == {_org_key(items[i].top_org.text) : i \in 1..Len(items)}

\* sub_keys
SubKeys(sub_orgs) == {_org_key(sub_orgs[k].org.text) : k \in 1..Len(sub_orgs)}

\* sub_anchors_sorted: the primary anchors, or those of the ignored labels
\* when there is no primary anchor and the item has sub-organizations
SubAnchorsOr(doc, tstart, tend, sub_keys, primary) ==
    IF primary = <<>> /\ sub_keys # {}
    THEN _collect_anchors_coalesced_in_range(doc, doc.text, tstart, tend, sub_keys,
                                             IGNORE_LABELS)
    ELSE primary

SubAnchors(doc, spans, tstart, tend, sub_keys) ==
    SubAnchorsOr(doc, tstart, tend, sub_keys,
        _collect_suborg_anchors_coalesced(doc.text, spans, tstart, tend, sub_keys))

\* mutant: every slice runs to the end of the parent block
AnchorEnd_BlockEnd(anchors, tend, n) == tend

\* end_by_anchor_id of the n-th anchor
AnchorEnd(anchors, tend, n) ==
    IF n + 1 <= Len(anchors) THEN anchors[n + 1].start_char ELSE tend

\* an OrgBlockResult with extras = {"sub_org": sub_org}
SubOrgResult(org, org_block_text, docs, status, sub_org) ==
    [org |-> org, org_block_text |-> org_block_text, docs |-> docs, status |-> status,
     extras |-> [sub_org |-> sub_org]]

\* slices: one per occurrence, named after the header
OccurrenceSlices(doc_text, anchors, tend, occurs) ==
    [n \in 1..Len(occurs) |->
        DocSlice(CleanName(anchors[occurs[n]].text),
                 Slice(doc_text, anchors[occurs[n]].start_char,
                       AnchorEnd(anchors, tend, occurs[n])))]

\* matched_slices: the first matched_count slices take the names of the
\* expected documents, the others keep theirs
PairedSlices(slices, json_docs) ==
    [n \in 1..Len(slices) |->
        IF n <= Len(json_docs)
        THEN DocSlice(CleanName(json_docs[n].text), slices[n].text)
        ELSE slices[n]]

\* the record of a sub-organization with occurrences
SubOrgFound(doc_text, top_org_clean, sub, anchors, tend, occurs, slices) ==
    SubOrgResult(top_org_clean,
        Slice(doc_text, anchors[occurs[1]].start_char,
              AnchorEnd(anchors, tend, occurs[Len(occurs)])),
        PairedSlices(slices, sub.docs),
        IF Len(slices) = Len(sub.docs) THEN "ok" ELSE "partial",
        CleanName(sub.org.text))

\* the record of one sub-organization, occurs being anchors_by_key.get(sub_key, [])
SubOrgRecord(doc_text, top_org_clean, sub, anchors, tend, occurs) ==
    IF occurs = <<>>
    THEN SubOrgResult(top_org_clean, <<>>, <<>>, "org_missing", CleanName(sub.org.text))
    ELSE SubOrgFound(doc_text, top_org_clean, sub, anchors, tend, occurs,
                     OccurrenceSlices(doc_text, anchors, tend, occurs))

\* anchors_by_key.get(key, []): the indexes of the anchors of the key, in order
OccursOf(anchor_keys, key) ==
    SelectSeq([n \in 1..Len(anchor_keys) |-> n], LAMBDA n : anchor_keys[n] = key)

\* the records of the sub-organizations of an item whose top organization has a block
SubOrgRecords(doc_text, top_org_clean, sub_orgs, anchors, anchor_keys, tend) ==
    [k \in 1..Len(sub_orgs) |->
        SubOrgRecord(doc_text, top_org_clean, sub_orgs[k], anchors, tend,
                     OccursOf(anchor_keys, _org_key(sub_orgs[k].org.text)))]

SubOrgRecordsOf(doc_text, top_org_clean, sub_orgs, anchors, tend) ==
    SubOrgRecords(doc_text, top_org_clean, sub_orgs, anchors,
                  [n \in 1..Len(anchors) |-> _org_key(anchors[n].text)], tend)

\* the records of one item, found being its entry of top_lookup
ItemRecords(doc, spans, item, found) ==
    IF found = <<>>
    THEN [k \in 1..Len(item.sub_orgs) |->
            SubOrgResult(CleanName(item.top_org.text), <<>>, <<>>, "org_missing",
                         CleanName(item.sub_orgs[k].org.text))]
    ELSE SubOrgRecordsOf(doc.text, CleanName(item.top_org.text), item.sub_orgs,
            SubAnchors(doc, spans, found[1].start, found[1].end, SubKeys(item.sub_orgs)),
            found[1].end)

\* the loop over the items, from the i-th
RECURSIVE HierResultsFrom(_, _, _, _, _, _, _, _, _)
HierResultsFrom(doc, spans, items, blocks, keys, fb_blocks, fb_keys, missing_top, i) ==
    IF i > Len(items) THEN <<>>
    ELSE ItemRecords(doc, spans, items[i],
             body_org_lookup(blocks, keys, fb_blocks, fb_keys, missing_top,
                             _org_key(items[i].top_org.text)))
         \o HierResultsFrom(doc, spans, items, blocks, keys, fb_blocks, fb_keys,
                            missing_top, i + 1)

HierWithFallback(doc, spans, items, blocks, keys, fb_blocks, missing_top) ==
    HierResultsFrom(doc, spans, items, blocks, keys, fb_blocks, BlockKeys(fb_blocks),
                    missing_top, 1)

\* fb_top_blocks are built when a top organization has no block
HierWithKeys(doc, spans, items, blocks, keys, missing_top) ==
    HierWithFallback(doc, spans, items, blocks, keys,
        IF missing_top # {}
        THEN _build_blocks_coalesced_from_doc(doc, doc.text, IGNORE_LABELS, missing_top)
        ELSE <<>>,
        missing_top)

HierWithBlocks(doc, spans, items, blocks, keys) ==
    HierWithKeys(doc, spans, items, blocks, keys, TopOrgKeys(items) \ Range(keys))

\* results of the hierarchical mode, blocks being top_blocks
HierResults(doc, items, blocks) ==
    HierWithBlocks(doc, _collect_spans(doc), items, blocks, BlockKeys(blocks))

\* ------------------------------------------------------------------------
\* The Series I/II slicer run on one body and one flat payload (SpecFlat)
\* ------------------------------------------------------------------------

MaxFlatEnts == 3
MaxFlatItems == 1

T_AvisoNumBold == <<"*","*","A","v","i","s","o"," ","n",".","º"," ","5","*","*">>
T_Aviso7 == <<"A","v","i","s","o"," ","7">>
T_Despacho == <<"D","e","s","p","a","c","h","o"," ","1"," ","/"," ","2","0">>
T_EditalCaps == <<"E","D","I","T","A","L"," ","N"," ","O"," ","3">>

FlatPieces ==
    {Piece("ORG_LABEL", T_CamaraBold), Piece("JUNK_LABEL", T_SecRegional),
     Piece("DOC_NAME_LABEL", T_AvisoNumBold), Piece("DOC_NAME_LABEL", T_Aviso7),
     Piece("PARAGRAPH", T_Texto)}

DocsOfTexts(texts) == [k \in 1..Len(texts) |-> [text |-> texts[k]]]

FlatDocLists ==
    {<<T_Aviso5>>, <<T_Aviso5, T_Aviso7>>, <<T_Aviso7, T_Aviso5>>,
     <<T_Despacho, T_EditalCaps>>, <<T_Aviso5, T_Despacho, T_Aviso7>>}

FlatItem(o, ds) == [org |-> [text |-> o], docs |-> DocsOfTexts(ds)]

FlatItems ==
    {FlatItem(T_Camara, ds) : ds \in FlatDocLists}
        \cup {FlatItem(T_SecRegional, <<T_Aviso5>>)}

InitFlat ==
    /\ pc = "divide_start"
    /\ doc_body \in {DocOf(ps) : ps \in SeqsUpTo(FlatPieces, MaxFlatEnts)}
    /\ payload \in {[items |-> its] : its \in SeqsUpTo(FlatItems, MaxFlatItems)}
    /\ org_windows = Unset
    /\ org_blocks = Unset
    /\ doc_type_matches = Unset
    /\ next_bounds = Unset
    /\ results = Unset
    /\ results_min = Unset
    /\ split_out = Unset

\* hierarchical = any("top_org" in it for it in items)
Hierarchical(items) == \E i \in 1..Len(items) : "top_org" \in DOMAIN items[i]

\* divide_body_by_org_and_docs with the defaulted keyword arguments;
\* org_blocks holds org_blocks of the flat mode and top_blocks of the
\* hierarchical one
DivideBodyByOrgAndDocs ==
    /\ pc = "divide_start"
    /\ pc' = "divide_done"
    /\ org_blocks' = _build_org_blocks_coalesced_to_json(
                        doc_body.text, _collect_spans(doc_body),
                        IF Hierarchical(payload.items)
                        THEN TopOrgKeys(payload.items)
                        ELSE JsonOrgKeys(payload.items))
    /\ results' = IF Hierarchical(payload.items)
                  THEN HierResults(doc_body, payload.items, org_blocks')
                  ELSE FlatResults(doc_body, payload.items, org_blocks')
    /\ results_min' = ResultsReduzed(results')
    /\ UNCHANGED <<doc_body, payload, org_windows, doc_type_matches, next_bounds, split_out>>

NextFlat == DivideBodyByOrgAndDocs

SpecFlat == InitFlat /\ [][NextFlat]_vars

\* The flat run, read without the slicer's scans

\* the blocks of org_blocks anchored at the organization of the i-th item
BlocksOfItem(i) ==
    {k \in 1..Len(org_blocks) :
        _org_key(org_blocks[k].span.text) = _org_key(payload.items[i].org.text)}

\* the block located for the i-th item: the first of them
LocatedBlock(i) == org_blocks[SetMin(BlocksOfItem(i))]

\* the document-name headers of the body that start inside a block
HeadersIn(b) ==
    {k \in 1..Len(doc_body.ents) :
        /\ doc_body.ents[k].label_ = DOC_NAME_LABEL
        /\ b.start <= doc_body.ents[k].start_char
        /\ doc_body.ents[k].start_char < b.end}

\* the items that expect two or more documents under an organization whose
\* block is located and holds no document-name header
HeaderlessItems ==
    {i \in 1..Len(payload.items) :
        /\ Len(payload.items[i].docs) >= 2
        /\ BlocksOfItem(i) # {}
        /\ HeadersIn(LocatedBlock(i)) = {}}

\* C10 (as stated): in flat mode, when the payload expects two or more
\* documents under an organization whose block is located in the body and
\* holds no document-name header, the organization's record has status
\* doc_missing, reports each expected document with empty text, and its
\* block is the located body range of the organization.
C10_MissingDocsReportedEmpty ==
    pc = "divide_done" =>
        \A i \in HeaderlessItems :
            /\ results[i].status = "doc_missing"
            /\ results[i].org_block_text =
                   Slice(doc_body.text, LocatedBlock(i).start, LocatedBlock(i).end)
            /\ Len(results[i].docs) = Len(payload.items[i].docs)
            /\ \A k \in 1..Len(payload.items[i].docs) :
                  results[i].docs[k] =
                      DocSlice(CleanName(payload.items[i].docs[k].text), <<>>)

\* ------------------------------------------------------------------------
\* The Series I/II slicer run on one body and one hierarchical payload
\* (SpecHier)
\* ------------------------------------------------------------------------

MaxHierEnts == 4

HierPieces ==
    {Piece("ORG_LABEL", T_SecRegional), Piece("ORG_WITH_STAR_LABEL", T_DaSaude),
     Piece("ORG_LABEL", T_CamaraBold), Piece("JUNK_LABEL", T_DaSaude),
     Piece("PARAGRAPH", T_Texto)}

SubOrg(o, ds) == [org |-> [text |-> o], docs |-> DocsOfTexts(ds)]

HierSubLists ==
    {<<SubOrg(T_DaSaude, <<T_Aviso5, T_Aviso7>>)>>,
     <<SubOrg(T_DaSaude, <<T_Aviso5, T_Aviso7>>), SubOrg(T_Camara, <<T_Aviso7>>)>>,
     <<SubOrg(T_Camara, <<T_Aviso5>>), SubOrg(T_DaSaude, <<>>)>>}

HierItem(t, subs) == [top_org |-> [text |-> t], sub_orgs |-> subs]

HierPayloads ==
    {[items |-> <<HierItem(T_SecRegional, subs)>>] : subs \in HierSubLists}
    \cup {[items |-> <<HierItem(T_Camara, <<SubOrg(T_DaSaude, <<T_Aviso5>>)>>),
                       HierItem(T_SecRegional,
                                <<SubOrg(T_DaSaude, <<T_Aviso5, T_Aviso7>>)>>)>>]}

InitHier ==
    /\ pc = "divide_start"
    /\ doc_body \in {DocOf(ps) : ps \in SeqsUpTo(HierPieces, MaxHierEnts)}
    /\ payload \in HierPayloads
    /\ org_windows = Unset
    /\ org_blocks = Unset
    /\ doc_type_matches = Unset
    /\ next_bounds = Unset
    /\ results = Unset
    /\ results_min = Unset
    /\ split_out = Unset

SpecHier == InitHier /\ [][NextFlat]_vars

\* The hierarchical run, read without the slicer's scans

\* the rows of a hierarchical payload: <<i, k>> is the k-th sub-organization
\* of the i-th item
SubRows ==
    {r \in (1..Len(payload.items)) \X (1..2) : r[2] <= Len(payload.items[r[1]].sub_orgs)}

SubOf(r) == payload.items[r[1]].sub_orgs[r[2]]

\* the number of sub-organizations of the items before the i-th
RECURSIVE SubsBefore(_)
SubsBefore(i) ==
    IF i = 1 THEN 0 ELSE SubsBefore(i - 1) + Len(payload.items[i - 1].sub_orgs)

\* the record of a row
RecordOf(r) == results[SubsBefore(r[1]) + r[2]]

\* the blocks of org_blocks anchored at the top organization of the i-th item
TopBlocksOfItem(i) ==
    {k \in 1..Len(org_blocks) :
        _org_key(org_blocks[k].span.text) = _org_key(payload.items[i].top_org.text)}

ParentBlock(i) == org_blocks[SetMin(TopBlocksOfItem(i))]

\* the spans of the given labels inside the parent block of the i-th item
\* whose text is the header of one of the item's sub-organizations
HeadersOfLabels(i, labels) ==
    LET keys == SubKeys(payload.items[i].sub_orgs)
        parent == ParentBlock(i)
    IN  SelectSeq(doc_body.ents, LAMBDA e :
            /\ e.label_ \in labels
            /\ parent.start <= e.start_char
            /\ e.start_char < parent.end
            /\ _org_key(e.text) \in keys)

\* the sub-organization anchors of the parent block: the organization-like
\* headers, or the ignored-label ones when there is none
SubHeaders(i) ==
    LET primary == HeadersOfLabels(i, ORG_LIKE_LABELS)
    IN  IF primary # <<>> THEN primary ELSE HeadersOfLabels(i, IGNORE_LABELS)

\* the indexes of the headers whose key is the given one, in order
OccurrencesAmong(heads, key) ==
    SelectSeq([n \in 1..Len(heads) |-> n], LAMBDA n : _org_key(heads[n].text) = key)

\* the occurrences of the header of a row, as indexes into SubHeaders
Occurrences(r) == OccurrencesAmong(SubHeaders(r[1]), _org_key(SubOf(r).org.text))

\* the slice from the n-th sub-organization anchor to the next one, or to
\* the end of the parent block
SliceToNextAnchor(heads, block_end, n) ==
    Slice(doc_body.text, heads[n].start_char,
          IF n < Len(heads) THEN heads[n + 1].start_char ELSE block_end)

\* the rows whose top organization has a block in which the sub-organization occurs
OccurringRows == {r \in SubRows : TopBlocksOfItem(r[1]) # {} /\ Occurrences(r) # <<>>}

\* C11: in hierarchical mode, inside the parent organization's block every
\* occurrence of a sub-organization header becomes one slice running to the
\* next sub-organization anchor or the block end, repeats included; the n-th
\* occurrence takes the name of the n-th expected document; and the status
\* is ok exactly when the occurrences are as many as the expected documents,
\* partial otherwise.
C11_OccurrencesPairInOrder ==
    pc = "divide_done" =>
        \A r \in SubRows :
            TopBlocksOfItem(r[1]) # {} =>
                LET heads == SubHeaders(r[1])
                    occ == OccurrencesAmong(heads, _org_key(SubOf(r).org.text))
                    rec == RecordOf(r)
                IN  occ # <<>> =>
                       /\ Len(rec.docs) = Len(occ)
                       /\ \A n \in 1..Len(occ) :
                             /\ rec.docs[n].text =
                                   SliceToNextAnchor(heads, ParentBlock(r[1]).end, occ[n])
                             /\ n <= Len(SubOf(r).docs) =>
                                   rec.docs[n].doc_name = CleanName(SubOf(r).docs[n].text)
                       /\ rec.status =
                             IF Len(occ) = Len(SubOf(r).docs) THEN "ok" ELSE "partial"

\* a sub-organization whose header occurs twice in its parent's block, with
\* another sub-organization's anchor after the first occurrence, and that
\* expects two documents
C11_Witness ==
    /\ pc = "divide_done"
    /\ \E r \in OccurringRows :
          /\ Len(Occurrences(r)) = 2
          /\ Occurrences(r)[2] > Occurrences(r)[1] + 1
          /\ Len(SubOf(r).docs) = 2
          /\ RecordOf(r).status = "ok"

\* ------------------------------------------------------------------------
\* The Series I/II slicer run on flat and on hierarchical payloads
\* (SpecDivide)
\* ------------------------------------------------------------------------

MaxDivideEnts == 3

DividePayloads ==
    {[items |-> <<FlatItem(T_SecRegional, <<T_Aviso5>>), FlatItem(T_Camara, <<T_Aviso5>>)>>],
     [items |-> <<FlatItem(T_DaSaude, <<T_Aviso5>>),
                  FlatItem(T_SecRegionalSaude, <<T_Aviso5, T_Aviso7>>)>>],
     [items |-> <<HierItem(T_SecRegional,
                           <<SubOrg(T_DaSaude, <<T_Aviso5>>), SubOrg(T_Camara, <<>>)>>)>>],
     [items |-> <<HierItem(T_Camara,
                           <<SubOrg(T_DaSaude, <<T_Aviso5>>),
                             SubOrg(T_SecRegional, <<T_Aviso7>>)>>),
                  HierItem(T_SecRegional, <<SubOrg(T_DaSaude, <<T_Aviso5>>)>>)>>]}

InitDivide ==
    /\ pc = "divide_start"
    /\ doc_body \in {DocOf(ps) : ps \in SeqsUpTo(HierPieces, MaxDivideEnts)}
    /\ payload \in DividePayloads
    /\ org_windows = Unset
    /\ org_blocks = Unset
    /\ doc_type_matches = Unset
    /\ next_bounds = Unset
    /\ results = Unset
    /\ results_min = Unset
    /\ split_out = Unset

SpecDivide == InitDivide /\ [][NextFlat]_vars

\* the keys of the concatenations of up to max_merge consecutive spans of
\* the given labels, whatever lies between them
RunKeys(labels) ==
    LET sp == SelectSeq(doc_body.ents, LAMBDA e : e.label_ \in labels)
    IN  {_org_key(ConcatRaw(sp, p[1], p[2])) :
            p \in {q \in (1..Len(sp)) \X (1..Len(sp)) :
                      q[1] <= q[2] /\ q[2] < q[1] + max_merge}}

\* the keys that some header of the body, organization-like or ignored, can have
BodyHeaderKeys == RunKeys(ORG_LIKE_LABELS) \cup RunKeys(IGNORE_LABELS)

\* the record of a missing organization or sub-organization
IsMissingRecord(rec) ==
    rec.status = "org_missing" /\ rec.org_block_text = <<>> /\ rec.docs = <<>>

\* the number of sub-organizations of a hierarchical payload
SubOrgCount == SubsBefore(Len(payload.items) + 1)

\* C12: a payload organization (flat mode) or sub-organization (hierarchical
\* mode, the sub-organizations of a missing top organization included) with
\* no matching header in the body yields exactly one record, with status
\* org_missing, empty block text and no documents; the other organizations
\* are still processed, each into its own record.
C12_MissingOrgIsOneRecord ==
    pc = "divide_done" =>
        IF Hierarchical(payload.items)
        THEN /\ Len(results) = SubOrgCount
             /\ \A r \in SubRows :
                   /\ RecordOf(r).org = CleanName(payload.items[r[1]].top_org.text)
                   /\ RecordOf(r).extras.sub_org = CleanName(SubOf(r).org.text)
                   /\ (\/ _org_key(payload.items[r[1]].top_org.text) \notin BodyHeaderKeys
                       \/ _org_key(SubOf(r).org.text) \notin BodyHeaderKeys)
                         => IsMissingRecord(RecordOf(r))
             /\ \A r \in OccurringRows : RecordOf(r).status \in {"ok", "partial"}
        ELSE /\ Len(results) = Len(payload.items)
             /\ \A i \in 1..Len(payload.items) :
                   /\ results[i].org = CleanName(payload.items[i].org.text)
                   /\ _org_key(payload.items[i].org.text) \notin BodyHeaderKeys
                         => IsMissingRecord(results[i])
                   /\ BlocksOfItem(i) # {}
                         => results[i].status \in {"ok", "partial", "doc_missing"}

\* a hierarchical run in which the first item's top organization has no
\* header in the body, so that its two sub-organizations are missing, and
\* the second item's sub-organization is sliced
C12_Witness ==
    /\ pc = "divide_done"
    /\ Hierarchical(payload.items)
    /\ Len(payload.items) = 2
    /\ _org_key(payload.items[1].top_org.text) \notin BodyHeaderKeys
    /\ IsMissingRecord(results[1])
    /\ IsMissingRecord(results[2])
    /\ results[3].status = "ok"

\* ------------------------------------------------------------------------
\* Canonical title selection run on one header block (SpecPick)
\* ------------------------------------------------------------------------

MaxBlockTitles == 2
MaxAllowed == 2

T_Estatut0s == <<"E","S","T","A","T","U","T","0","S">>
T_EstatutosCaps == <<"E","S","T","A","T","U","T","O","S">>
T_EstatutosSpaced == <<"*","*","E","s","t","a","t","u","t","o","s",":","*","*">>
T_CorposCaps == <<"C","O","R","P","O","S"," ","G","E","R","E","N","T","E","S">>
T_Estatutos == <<"E","s","t","a","t","u","t","o","s">>
T_Corpos == <<"C","o","r","p","o","s"," ","G","e","r","e","n","t","e","s">>
T_Estatuto == <<"E","s","t","a","t","u","t","o">>

BlockTitleTexts == {T_Estatut0s, T_EstatutosCaps, T_EstatutosSpaced, T_CorposCaps}
AllowedTexts == {T_Estatutos, T_Corpos, T_Estatuto}

\* the iteration orders of the sets of at most n allowed titles
AllowedOrders(n) ==
    {a \in SeqsUpTo(AllowedTexts, n) :
        \A i, j \in 1..Len(a) : i # j => a[i] # a[j]}

InitPick ==
    /\ pc = "pick_start"
    /\ doc_body = Unset
    /\ payload \in [block_titles : SeqsUpTo(BlockTitleTexts, MaxBlockTitles) \ {<<>>},
                    allowed_titles : AllowedOrders(MaxAllowed)]
    /\ org_windows = Unset
    /\ org_blocks = Unset
    /\ doc_type_matches = Unset
    /\ next_bounds = Unset
    /\ results = Unset
    /\ results_min = Unset
    /\ split_out = Unset

PickCanonicalFromBlock ==
    /\ pc = "pick_start"
    /\ pc' = "pick_done"
    /\ results' = _pick_canonical_from_block(payload.block_titles, payload.allowed_titles)
    /\ UNCHANGED <<doc_body, payload, org_windows, org_blocks, doc_type_matches,
                   next_bounds, results_min, split_out>>

NextPick == PickCanonicalFromBlock

SpecPick == InitPick /\ [][NextPick]_vars

\* the header block "ESTATUT0S" offered the allowed titles "Estatutos" and
\* "Corpos Gerentes", in either iteration order
ScenarioD ==
    /\ payload.block_titles = <<T_Estatut0s>>
    /\ Range(payload.allowed_titles) = {T_Estatutos, T_Corpos}

\* C13: with allowed titles {"Estatutos", "Corpos Gerentes"} and the header
\* block "ESTATUT0S" (digit zero for the letter O), canonical title selection
\* returns "Estatutos".
C13_NoisyBlockResolves ==
    (pc = "pick_done" /\ ScenarioD) => results = <<T_Estatutos>>

\* ------------------------------------------------------------------------
\* Series IV: the body split at its signature spans (SpecSignature)
\* ------------------------------------------------------------------------

ASSINATURA == "ASSINATURA"

\* any(ch.isalpha() for ch in text)
has_letters(text) == \E i \in 1..Len(text) : IsAlpha(text[i])

\* the signature spans, ordered by position
Assinaturas(doc) == SortByStart(SelectSeq(doc.ents, LAMBDA e : e.label_ = ASSINATURA))

\* the boundary a signature span sets: its exclusive end
SigCut_AtStart(ent) == ent.start_char
SigCut(ent) == ent.end_char

\* doc[last_token_i:end_i].text.strip(): the tokens between two boundaries
\* carry the characters between them, white space at the ends apart
ChunkText(doc, from, to) == Strip(Slice(doc.text, from, to))

IVDoc(text) == [title |-> None, sub_org |-> None, text |-> text]

\* the chunks kept: those that are not empty and hold a letter
KeptChunks(texts) ==
    LET kept == SelectSeq(texts, LAMBDA t : t # <<>> /\ has_letters(t))
    IN  [k \in 1..Len(kept) |-> IVDoc(kept[k])]

\* the chunk ending with each signature, then the text after the last one
ChunkTexts(doc, sigs) ==
    [k \in 1..Len(sigs) |->
        ChunkText(doc, IF k = 1 THEN 0 ELSE SigCut(sigs[k - 1]), SigCut(sigs[k]))]
    \o <<ChunkText(doc, SigCut(sigs[Len(sigs)]), Len(doc.text))>>

SplitAt(doc, sigs) ==
    IF sigs = <<>>
    THEN [org |-> None, docs |-> KeptChunks(<<Strip(doc.text)>>)]
    ELSE [org |-> None, docs |-> KeptChunks(ChunkTexts(doc, sigs))]

split_doc_by_assinatura(doc) == SplitAt(doc, Assinaturas(doc))

MaxSigEnts == 4

T_SigChefe == <<"O"," ","C","H","E","F","E",","," ","A","n","a"," ","S","á">>
T_SigJuiz == <<"J","U","I","Z",","," ","R","u","i"," ","G","ó","i","s">>
T_Digits == <<"1","2","."," ","-">>
T_Ordinal == <<"3",".","º">>

SigPieces ==
    {Piece(ASSINATURA, T_SigChefe), Piece(ASSINATURA, T_SigJuiz),
     Piece("PARAGRAPH", T_Texto), Piece("TEXT", T_Digits),
     Piece("PARAGRAPH", T_Ordinal)}

InitSignature ==
    /\ pc = "signature_start"
    /\ doc_body \in {DocOf(ps) : ps \in SeqsUpTo(SigPieces, MaxSigEnts)}
    /\ payload = Unset
    /\ org_windows = Unset
    /\ org_blocks = Unset
    /\ doc_type_matches = Unset
    /\ next_bounds = Unset
    /\ results = Unset
    /\ results_min = Unset
    /\ split_out = Unset

SplitDocByAssinatura ==
    /\ pc = "signature_start"
    /\ pc' = "signature_done"
    /\ results_min' = split_doc_by_assinatura(doc_body)
    /\ UNCHANGED <<doc_body, payload, org_windows, org_blocks, doc_type_matches,
                   next_bounds, results, split_out>>

NextSignature == SplitDocByAssinatura

SpecSignature == InitSignature /\ [][NextSignature]_vars

\* The body read without the splitter's loop: the cut points are the body
\* start, the end of every signature span and the body end
SignatureSpans == {i \in 1..Len(doc_body.ents) : doc_body.ents[i].label_ = ASSINATURA}
Cuts == {0, Len(doc_body.text)} \cup {doc_body.ents[i].end_char : i \in SignatureSpans}
NextCut(b) == SetMin({c \in Cuts : c > b})
LetterIn(from, to) == \E i \in (from + 1)..to : IsAlpha(doc_body.text[i])
LetteredCuts == {b \in Cuts \ {Len(doc_body.text)} : LetterIn(b, NextCut(b))}
NthLetteredCut(k) ==
    CHOOSE b \in LetteredCuts : Cardinality({c \in LetteredCuts : c < b}) = k - 1
LastCut == SetMax(Cuts \ {Len(doc_body.text)})

\* C14: the Series IV splitter yields, in order, one chunk per stretch from
\* a cut point (the body start or the end of a signature span) to the next
\* (the end of the next signature span, included in the chunk, or the body
\* end) that holds an alphabetic character, and no other chunk; a body with
\* two signature spans and letter-free text after the last yields exactly 2
\* chunks, and a body without signature span yields itself as one chunk,
\* or none if it has no letter.
C14_ChunksEndAtSignatures ==
    pc = "signature_done" =>
        /\ results_min.org = None
        /\ Len(results_min.docs) = Cardinality(LetteredCuts)
        /\ \A k \in 1..Len(results_min.docs) :
              results_min.docs[k] =
                  [title |-> None, sub_org |-> None,
                   text |-> Strip(Slice(doc_body.text, NthLetteredCut(k),
                                        NextCut(NthLetteredCut(k))))]
        /\ (Cardinality(SignatureSpans) = 2 /\ ~LetterIn(LastCut, Len(doc_body.text)))
              => Len(results_min.docs) = 2
        /\ SignatureSpans = {}
              => results_min.docs =
                    IF has_letters(doc_body.text)
                    THEN <<[title |-> None, sub_org |-> None, text |-> Strip(doc_body.text)]>>
                    ELSE <<>>

\* two signature spans, the first after a paragraph, and digits after the
\* last one: two chunks, the trailing one dropped
C14_Witness ==
    /\ pc = "signature_done"
    /\ Len(doc_body.ents) = 3
    /\ Cardinality(SignatureSpans) = 2
    /\ LastCut + 1 < Len(doc_body.text)
    /\ ~LetterIn(LastCut, Len(doc_body.text))
    /\ Len(results_min.docs) = 2
    /\ results_min.docs[1].text = T_Texto \o <<"\n">> \o T_SigChefe
    /\ results_min.docs[2].text = T_SigJuiz

\* ------------------------------------------------------------------------
\* Title normalization applied to one string (SpecNormalize)
\* ------------------------------------------------------------------------

MaxTitleLen == 5

TitleChars == {"a", "*", ":", " "}

InitNormalize ==
    /\ pc = "normalize_start"
    /\ doc_body = Unset
    /\ payload \in SeqsUpTo(TitleChars, MaxTitleLen)
    /\ org_windows = Unset
    /\ org_blocks = Unset
    /\ doc_type_matches = Unset
    /\ next_bounds = Unset
    /\ results = Unset
    /\ results_min = Unset
    /\ split_out = Unset

NormalizeTitle ==
    /\ pc = "normalize_start"
    /\ pc' = "normalize_done"
    /\ results' = _normalize_title(payload)
    /\ UNCHANGED <<doc_body, payload, org_windows, org_blocks, doc_type_matches,
                   next_bounds, results_min, split_out>>

NextNormalize == NormalizeTitle

SpecNormalize == InitNormalize /\ [][NextNormalize]_vars

\* C15: normalize_title is idempotent: normalizing a normalized title
\* leaves it as it is.
C15_NormalizeIdempotent ==
    pc = "normalize_done" => _normalize_title(results) = results

\* ------------------------------------------------------------------------
\* Series III: the anchors of a run, pair by pair (Spec)
\* ------------------------------------------------------------------------

\* the body title at the span anchored to an item
AnchoredTitle(item) ==
    LET bts == BodyTitles(doc_body)
    IN  bts[CHOOSE i \in 1..Len(bts) :
                bts[i].start = Anchor(item).start /\ bts[i].end = Anchor(item).end]

\* the tiers, 1 the highest, under which a payload title and a body title match
PairTiers(pt, bt) ==
    {t \in 1..3 : TierEqual(t, bt, pt)}
        \cup (IF ContainedWithRatio(pt.letters, bt.letters) THEN {4} ELSE {})

\* the confidence a tier gives a pair, as a fraction <<numerator, denominator>>
PairConfidence(t, pt, bt) ==
    IF t = 4
    THEN <<80 * Shorter(pt.letters, bt.letters), 100 * Longer(pt.letters, bt.letters)>>
    ELSE TierConfidence(t)

FracLeq(a, b) == a[1] * b[2] <= b[1] * a[2]

\* C16: the confidence recorded for a claimed (payload title, body span)
\* pair is that of the highest-priority tier under which the pair matches:
\* 1.0 exact normalized, 0.95 tight, 0.90 letters-only exact, 0.8 x ratio
\* for letters-only containment with ratio in [0.80, 1]; it is therefore at
\* least the confidence of every lower tier that matches the pair, and lies
\* in [0, 1].
C16_ConfidenceOfHighestTier ==
    pc = "segment_done" =>
        \A k \in AnchoredItems :
            LET pt == FormsOf(payload.items[k].doc_name)
                bt == AnchoredTitle(payload.items[k])
                tiers == PairTiers(pt, bt)
                conf == Anchor(payload.items[k]).confidence
            IN  /\ tiers # {}
                /\ conf = PairConfidence(SetMin(tiers), pt, bt)
                /\ conf \in {<<100, 100>>, <<95, 100>>, <<90, 100>>}
                      \/ (/\ SetMin(tiers) = 4
                          /\ FracLeq(<<64, 100>>, conf)
                          /\ FracLeq(conf, <<80, 100>>))
                /\ \A t \in tiers : FracLeq(PairConfidence(t, pt, bt), conf)
                /\ FracLeq(<<0, 1>>, conf) /\ FracLeq(conf, <<1, 1>>)

\* a run with two equal headers in which one item is anchored at the exact
\* tier, its pair matching the three lower tiers too, and another by
\* containment with a ratio below 1
C16_Witness ==
    /\ pc = "segment_done"
    /\ \E k \in AnchoredItems :
          /\ Anchor(payload.items[k]).confidence = <<100, 100>>
          /\ PairTiers(FormsOf(payload.items[k].doc_name),
                       AnchoredTitle(payload.items[k])) = {1, 2, 3, 4}
          /\ \E i, j \in 1..Len(BodyTitles(doc_body)) :
                i # j /\ BodyTitles(doc_body)[i].norm = BodyTitles(doc_body)[j].norm
    /\ \E k \in AnchoredItems :
          /\ PairTiers(FormsOf(payload.items[k].doc_name),
                       AnchoredTitle(payload.items[k])) = {4}
          /\ Anchor(payload.items[k]).confidence[1] * 100
                < 80 * Anchor(payload.items[k]).confidence[2]

\* ------------------------------------------------------------------------
\* Series III on bodies with headers of two organizations (SpecOrgs)
\* ------------------------------------------------------------------------

MaxOrgEnts == 3
MaxOrgItems == 1

OrgsPieces ==
    {Piece("ORG_LABEL", T_SecRegional), Piece("ORG_LABEL", T_CamaraBold),
     Piece("DOC_NAME_LABEL", T_Aviso5Bold), Piece("PARAGRAPH", T_Texto)}

OrgLists ==
    {OrgsOfTexts(<<T_SecRegionalSaude, T_Camara>>),
     OrgsOfTexts(<<T_Regional, T_Camara, T_DaSaude>>)}

OrgsItemOptions ==
    {Item(1, <<1>>, T_Aviso5Colon, <<>>),
     Item(1, <<2>>, T_Aviso5Colon, <<>>),
     Item(2, <<2>>, <<>>, <<>>)}

InitOrgs ==
    /\ pc = "segment_start"
    /\ doc_body \in {DocOf(ps) : ps \in SeqsUpTo(OrgsPieces, MaxOrgEnts)}
    /\ payload \in {[orgs |-> os, items |-> its] :
                        os \in OrgLists, its \in SeqsUpTo(OrgsItemOptions, MaxOrgItems)}
    /\ org_windows = Unset
    /\ org_blocks = Unset
    /\ doc_type_matches = Unset
    /\ next_bounds = Unset
    /\ results = Unset
    /\ results_min = Unset
    /\ split_out = Unset

SpecOrgs == InitOrgs /\ [][Next]_vars

\* the window the main loop matches to the o-th organization, 0 for none
OrgWindowOf(o) == _match_org_to_window(results[o].org, org_windows).win_idx

\* C17: the body document-name span anchored to a payload item lies inside
\* the window matched to the item's organization, so an item of one
\* organization is never anchored to a header in another organization's
\* window.
C17_AnchorInsideOrgWindow ==
    pc = "segment_done" =>
        \A r \in SliceRows :
            Anchor(ItemAt(r)).found =>
                /\ OrgWindowOf(r[1]) # 0
                /\ org_windows[OrgWindowOf(r[1])].start <= Anchor(ItemAt(r)).start
                /\ Anchor(ItemAt(r)).end <= org_windows[OrgWindowOf(r[1])].end

\* The matching of a name to the windows, read from the names themselves
NameTight(name) == Lowered(DropSpaces(_normalize_title(name)))

StrictlyMatches(a, b) ==
    \/ a = b
    \/ Len(a) >= MIN_SUBSTR /\ IsSubstr(a, b)
    \/ Len(b) >= MIN_SUBSTR /\ IsSubstr(b, a)

StrictWindows(name) ==
    {i \in 1..Len(org_windows) :
        StrictlyMatches(NameTight(name), NameTight(org_windows[i].name))}

\* the scores of the windows against a token set
Scores(tokens) ==
    [i \in 1..Len(org_windows) |-> _jaccard(tokens, _simple_token_set(org_windows[i].name))]

BestWindows(sc) == {i \in DOMAIN sc : \A j \in DOMAIN sc : FracLeq(sc[j], sc[i])}

ExpectedOf(strict, sc) ==
    IF strict # {}
    THEN [win_idx |-> SetMin(strict), status |-> "org_anchored"]
    ELSE [win_idx |-> SetMin(BestWindows(sc)),
          status |-> IF sc[SetMin(BestWindows(sc))][1] > 0
                     THEN "org_anchored" ELSE "org_unanchored"]

ExpectedMatch(name) == ExpectedOf(StrictWindows(name), Scores(_simple_token_set(name)))

OnlyGlobalWindow == Len(org_windows) = 1 /\ org_windows[1].name = GlobalName

\* C18 (as stated): a payload organization is matched to the first window
\* whose name equals its name after normalization or contains or is
\* contained in it, the contained name having at least 10 normalized
\* characters, with status org_anchored; otherwise to the window of highest
\* token-set Jaccard score, with status org_anchored if the score is
\* positive and org_unanchored otherwise.
C18_StrictElseBestJaccard ==
    pc = "segment_done" =>
        \A o \in 1..Len(results) :
            LET want == ExpectedMatch(results[o].org)
            IN  /\ _match_org_to_window(results[o].org, org_windows) = want
                /\ results[o].status = want.status

\* C18 (amended): as stated when the body has organization windows, the
\* first window winning a tie of scores; when the only window is the
\* "(global)" window, that window is returned with status org_anchored
\* whatever the names.
C18_StrictElseBestJaccardOrGlobal ==
    pc = "segment_done" =>
        \A o \in 1..Len(results) :
            LET want == IF OnlyGlobalWindow
                        THEN [win_idx |-> 1, status |-> "org_anchored"]
                        ELSE ExpectedMatch(results[o].org)
            IN  /\ _match_org_to_window(results[o].org, org_windows) = want
                /\ results[o].status = want.status
                /\ \A r \in SliceRows :
                      (r[1] = o /\ TitleOf(ItemAt(r)) = <<>>) =>
                          SliceAt(r).text = WindowText(want.win_idx)

\* a body with the windows of two organizations and a payload of three:
\* one matched strictly to the first window, one by its score to the
\* second, and one of score 0 left unanchored
C18_Witness ==
    /\ pc = "segment_done"
    /\ Len(org_windows) = 2
    /\ Len(results) = 3
    /\ StrictWindows(results[1].org) = {}
    /\ OrgWindowOf(1) = 2 /\ results[1].status = "org_anchored"
    /\ StrictWindows(results[2].org) = {1}
    /\ OrgWindowOf(2) = 1 /\ results[2].status = "org_anchored"
    /\ StrictWindows(results[3].org) = {}
    /\ results[3].status = "org_unanchored"

\* ------------------------------------------------------------------------
\* Flat mode: the documents of a block whose headers are found (SpecFlat)
\* ------------------------------------------------------------------------

DocNorm(i, k) == normalize_doc_title(payload.items[i].docs[k].text)
HeadNorm(h) == normalize_doc_title(doc_body.ents[h].text)

\* the expected documents of the i-th item whose normalized title is that
\* of a document-name header of the item's block
HeadedDocs(i) ==
    {k \in 1..Len(payload.items[i].docs) :
        \E h \in HeadersIn(LocatedBlock(i)) : HeadNorm(h) = DocNorm(i, k)}

\* the headers of those documents occur in the block in payload order
HeadersInPayloadOrder(i) ==
    \E f \in [HeadedDocs(i) -> HeadersIn(LocatedBlock(i))] :
        /\ \A k \in HeadedDocs(i) : HeadNorm(f[k]) = DocNorm(i, k)
        /\ \A j, k \in HeadedDocs(i) : j < k => f[j] < f[k]

\* some slice of the record starts at a header of the k-th document
SlicedAtHeader(i, k) ==
    \E n \in 1..Len(results[i].docs) :
        \E h \in HeadersIn(LocatedBlock(i)) :
            /\ HeadNorm(h) = DocNorm(i, k)
            /\ \E e \in doc_body.ents[h].start_char..LocatedBlock(i).end :
                  results[i].docs[n].text =
                      Slice(doc_body.text, doc_body.ents[h].start_char, e)

\* the items whose block is located and lacks the header of some document
PartlyHeadedItems ==
    {i \in 1..Len(payload.items) :
        /\ BlocksOfItem(i) # {}
        /\ HeadedDocs(i) # 1..Len(payload.items[i].docs)}

\* C19: in flat slicing of one organization block, when not all expected
\* documents have a header, every expected document whose normalized title
\* equals a document-name header of the block, those headers occurring in
\* payload order, gets a slice starting at its header, whatever other
\* expected documents are missing; the record is partial when some but not
\* all documents are sliced and doc_missing when none is.
C19_MatchingHeadersSliced ==
    pc = "divide_done" =>
        \A i \in PartlyHeadedItems :
            /\ HeadersInPayloadOrder(i) => \A k \in HeadedDocs(i) : SlicedAtHeader(i, k)
            /\ HeadedDocs(i) # {} => results[i].status = "partial"
            /\ results[i].docs = <<>> => results[i].status = "doc_missing"

\* ------------------------------------------------------------------------
\* The block builder run on runs of short organization spans (SpecBlocks)
\* ------------------------------------------------------------------------

MaxBlockEnts == 4

T_Abb == <<"A","b","b">>
T_Abbb == <<"A","b","b","b">>
T_Abbbb == <<"A","b","b","b","b">>
T_Dash == <<"-",",">>

BlockPieces ==
    {Piece("ORG_LABEL", T_Ab), Piece("ORG_WITH_STAR_LABEL", T_b),
     Piece("TEXT", T_Dash), Piece("PARAGRAPH", T_Texto)}

BlockOrgLists ==
    {<<T_Ab>>, <<T_Abb>>, <<T_Abbb>>, <<T_Abbbb>>, <<T_b, T_Abb>>, <<T_Ab, T_Abbb>>}

InitBlocks ==
    /\ pc = "windows_start"
    /\ doc_body \in {DocOf(ps) : ps \in SeqsUpTo(BlockPieces, MaxBlockEnts)}
    /\ payload \in {[orgs |-> OrgsOfTexts(ts), items |-> <<>>] : ts \in BlockOrgLists}
    /\ org_windows = Unset
    /\ org_blocks = Unset
    /\ doc_type_matches = Unset
    /\ next_bounds = Unset
    /\ results = Unset
    /\ results_min = Unset
    /\ split_out = Unset

SpecBlocks == InitBlocks /\ [][NextWindows]_vars

\* The organization-like spans of the body, and the scan read off them
BodyOrgs == SelectSeq(doc_body.ents, LAMBDA e : e.label_ \in ORG_LIKE_LABELS)

\* the text strictly between consecutive spans k-1 and k of orgs is empty or
\* light punctuation, for every k from i+1 to j
LightBetween(orgs, i, j) ==
    \A k \in (i + 1)..j :
        \A c \in (orgs[k - 1].end_char + 1)..orgs[k].start_char :
            doc_body.text[c] \in LightGapChars

LightUpTo(i, j) == LightBetween(BodyOrgs, i, j)

\* the spans up to which span i extends with a valid key, at most reach
\* spans after it
ValidEnds(orgs, keys, i, reach) ==
    {j \in i..(i + reach) :
        /\ j <= Len(orgs)
        /\ LightBetween(orgs, i, j)
        /\ _org_key(ConcatRaw(orgs, i, j)) \in keys}

\* the scan with the given reach: for each span the ends of its valid
\* concatenations, and the spans considered, which are the first and the
\* one after each considered span or after the anchor emitted from it
ScanOf(orgs, keys, reach) ==
    LET ends == [i \in 1..Len(orgs) |-> ValidEnds(orgs, keys, i, reach)]
        after == [i \in 1..Len(orgs) |->
                    IF ends[i] # {} THEN SetMax(ends[i]) + 1 ELSE i + 1]
        reached[i \in 1..(Len(orgs) + 1)] ==
            i = 1 \/ \E k \in 1..(i - 1) : reached[k] /\ after[k] = i
    IN  [ends |-> ends, considered |-> {i \in 1..Len(orgs) : reached[i]}]

Considered(reach) == ScanOf(BodyOrgs, OrgKeys(payload), reach).considered

\* the anchors of blocks are those the scan sc emits from the spans orgs
AnchorsOfScan(blocks, orgs, sc) ==
    LET starts == {i \in sc.considered : sc.ends[i] # {}}
        nth(k) == CHOOSE i \in starts : Cardinality({q \in starts : q < i}) = k - 1
    IN  /\ Len(blocks) = Cardinality(starts)
        /\ \A k \in 1..Len(blocks) :
              /\ blocks[k].span.start_char = orgs[nth(k)].start_char
              /\ blocks[k].span.end_char = orgs[SetMax(sc.ends[nth(k)])].end_char
              /\ blocks[k].span.label_ = orgs[nth(k)].label_
              /\ blocks[k].span.text =
                     Slice(doc_body.text, orgs[nth(k)].start_char,
                           orgs[SetMax(sc.ends[nth(k)])].end_char)

\* the anchors of org_blocks are those of the scan with the given reach
AnchorsAreLongestValid(reach) ==
    AnchorsOfScan(org_blocks, BodyOrgs, ScanOf(BodyOrgs, OrgKeys(payload), reach))

\* C20 (as stated): the block builder scans the organization-like spans
\* left to right; from each span it considers the concatenations with up
\* to 3 immediately following organization-like spans, the gaps being empty
\* or light punctuation, and emits the longest whose key is valid; consumed
\* spans are not reconsidered and a span with no valid concatenation, its
\* own text included, yields no anchor.
C20_LongestOfThreeFollowing ==
    pc \in {"blocks_built", "both_built"} => AnchorsAreLongestValid(3)

\* C20 (amended): as stated, with up to max_merge - 1 = 2 immediately
\* following spans, that is at most max_merge = 3 spans in an anchor.
C20_LongestOfTwoFollowing ==
    pc \in {"blocks_built", "both_built"} => AnchorsAreLongestValid(max_merge - 1)

\* four organization-like spans separated by light gaps, the first three
\* made one anchor and the fourth, considered next, yielding none
C20_Witness ==
    /\ pc = "both_built"
    /\ Len(BodyOrgs) = 4
    /\ LightUpTo(1, 4)
    /\ Len(org_blocks) = 1
    /\ org_blocks[1].span.start_char = BodyOrgs[1].start_char
    /\ org_blocks[1].span.end_char = BodyOrgs[3].end_char
    /\ Considered(max_merge - 1) = {1, 4}

\* ------------------------------------------------------------------------
\* Sub-segmentation run on one segment text (SpecSubdivide)
\* ------------------------------------------------------------------------

MaxSubEnts == 5

SubdividePieces ==
    {Piece("DOC_NAME_LABEL", T_Estatutos), Piece("DOC_NAME_LABEL", T_CorposCaps),
     Piece("DOC_NAME_LABEL", T_Aviso), Piece("PARAGRAPH", T_Texto)}

SubdivideAllowed == {<<T_Estatutos, T_Corpos>>, <<T_Corpos>>}

InitSubdivide ==
    /\ pc = "subdivide_start"
    /\ doc_body \in {DocOf(ps) : ps \in SeqsUpTo(SubdividePieces, MaxSubEnts)}
    /\ payload \in SubdivideAllowed
    /\ org_windows = Unset
    /\ org_blocks = Unset
    /\ doc_type_matches = Unset
    /\ next_bounds = Unset
    /\ results = Unset
    /\ results_min = Unset
    /\ split_out = Unset

\* _subdivide_seg_text_by_allowed_headers(seg_text, allowed_titles), the
\* segment text being the whole of doc_body
SubdivideSegText ==
    /\ pc = "subdivide_start"
    /\ pc' = "subdivide_done"
    /\ results' = _subdivide_seg_text_by_allowed_headers(doc_body, 0, Len(doc_body.text), payload)
    /\ UNCHANGED <<doc_body, payload, org_windows, org_blocks, doc_type_matches,
                   next_bounds, results_min, split_out>>

NextSubdivide == SubdivideSegText

SpecSubdivide == InitSubdivide /\ [][NextSubdivide]_vars

\* the spans of the segment text and the header spans among them
SegEnts == doc_body.ents
IsHeaderSpan(k) == k \in 1..Len(SegEnts) /\ SegEnts[k].label_ = "DOC_NAME_LABEL"

\* a header block is a maximal run of consecutive header spans: it opens at
\* a header span that no header span precedes immediately, and closes before
\* the first span that is not a header
BlockFirsts == {k \in 1..Len(SegEnts) : IsHeaderSpan(k) /\ ~IsHeaderSpan(k - 1)}
BlockLast(k) == SetMax({j \in k..Len(SegEnts) : \A i \in k..j : IsHeaderSpan(i)})
BlockTitles(k) ==
    [i \in 1..(BlockLast(k) - k + 1) |-> _normalize_title(SegEnts[k + i - 1].text)]

\* the blocks that have a canonical title among the allowed ones
ApprovedFirsts(allowed) ==
    {k \in BlockFirsts : _pick_canonical_from_block(BlockTitles(k), allowed) # None}

\* the sub-slices the approved blocks opening at the spans of firsts bound
SlicesBoundBy(firsts) ==
    LET nth == [n \in 1..Cardinality(firsts) |->
                    CHOOSE k \in firsts : Cardinality({j \in firsts : j < k}) = n - 1]
    IN  /\ Len(results) = Cardinality(firsts)
        /\ \A n \in 1..Len(results) :
            LET to == IF n < Len(results) THEN SegEnts[nth[n + 1]].start_char
                      ELSE Len(doc_body.text)
            IN  /\ results[n].start = SegEnts[BlockLast(nth[n])].end_char
                /\ results[n].end = to
                /\ results[n].body = Slice(doc_body.text, results[n].start, to)

SlicesAscending ==
    /\ \A n \in 1..Len(results) : results[n].start <= results[n].end
    /\ \A n \in 1..(Len(results) - 1) : results[n].end <= results[n + 1].start

valid_labels == {"ORG_LABEL", "ORG_WITH_STAR_LABEL", "DOC_NAME_LABEL", "DOC_TEXT", "PARAGRAPH"}

NoParagraph == -1

\* EntitySpan.from_span
EntitySpan(sp, paragraph_id) ==
    [text |-> sp.text, label |-> sp.label_, start |-> sp.start_char, end |-> sp.end_char,
     paragraph_id |-> paragraph_id, sent_id |-> None]

\* mutant: a plain organization opens a paragraph inside a starred block too
OpensParagraph_EveryOrg(label, in_star_block) ==
    label \in {"ORG_WITH_STAR_LABEL", "ORG_LABEL"}

\* the spans at which current_pid is incremented
OpensParagraph(label, in_star_block) ==
    \/ label = "ORG_WITH_STAR_LABEL"
    \/ label = "ORG_LABEL" /\ ~in_star_block

\* the loop of _collect_entities from the i-th span on
RECURSIVE CollectFrom(_, _, _, _)
CollectFrom(ents, i, current_pid, in_star_block) ==
    IF i > Len(ents) THEN <<>>
    ELSE IF ents[i].label_ \notin valid_labels
    THEN CollectFrom(ents, i + 1, current_pid, in_star_block)
    ELSE LET pid == IF OpensParagraph(ents[i].label_, in_star_block)
                    THEN current_pid + 1 ELSE current_pid
         IN  <<EntitySpan(ents[i], IF pid >= 0 THEN pid ELSE NoParagraph)>>
             \o CollectFrom(ents, i + 1, pid,
                            in_star_block \/ ents[i].label_ = "ORG_WITH_STAR_LABEL")

_collect_entities(doc) == CollectFrom(doc.ents, 1, -1, FALSE)

NoKind == "None"

_pair_kind(head_label, tail_label) ==
    IF head_label = "ORG_LABEL" /\ tail_label = "DOC_NAME_LABEL" THEN "ORG→DOC_NAME"
    ELSE IF head_label = "ORG_LABEL" /\ tail_label = "ORG_WITH_STAR_LABEL" THEN "ORG→ORG*"
    ELSE IF head_label = "ORG_WITH_STAR_LABEL" /\ tail_label = "ORG_LABEL" THEN "ORG*→ORG"
    ELSE IF head_label = "ORG_WITH_STAR_LABEL" /\ tail_label = "DOC_NAME_LABEL"
    THEN "ORG*→DOC_NAME"
    ELSE IF head_label = "DOC_NAME_LABEL" /\ tail_label \in {"DOC_TEXT", "PARAGRAPH"}
    THEN "DOC_NAME→DOC_TEXT"
    ELSE NoKind

Relation(doc, head, tail, kind, paragraph_id) ==
    [head |-> head, tail |-> tail, kind |-> kind, paragraph_id |-> paragraph_id,
     sent_id |-> None, evidence_text |-> Strip(Slice(doc.text, head.end, tail.start))]

\* the tail labels a head may be linked to more than once
allow_multi(head_label, tail_type) ==
    \/ head_label = "ORG_WITH_STAR_LABEL" /\ tail_type = "ORG_LABEL"
    \/ tail_type = "DOC_NAME_LABEL"

\* the inner loop of _extract_block: the tails of the head seq[i] from j on
RECURSIVE TailsFrom(_, _, _, _, _)
TailsFrom(doc, seq, paragraph_id, i, j) ==
    IF j > Len(seq) THEN <<>>
    ELSE LET kind == _pair_kind(seq[i].label, seq[j].label)
             already == \E k \in (i + 1)..(j - 1) :
                            /\ seq[k].label = seq[j].label
                            /\ _pair_kind(seq[i].label, seq[k].label) # NoKind
         IN  (IF kind # NoKind /\ (allow_multi(seq[i].label, seq[j].label) \/ ~already)
              THEN <<Relation(doc, seq[i], seq[j], kind, paragraph_id)>>
              ELSE <<>>)
             \o TailsFrom(doc, seq, paragraph_id, i, j + 1)

\* the outer loop of _extract_block from the head seq[i] on
RECURSIVE BlockFrom(_, _, _, _)
BlockFrom(doc, seq, paragraph_id, i) ==
    IF i > Len(seq) THEN <<>>
    ELSE (IF seq[i].label \in {"ORG_LABEL", "ORG_WITH_STAR_LABEL", "DOC_NAME_LABEL"}
          THEN TailsFrom(doc, seq, paragraph_id, i, i + 1)
          ELSE <<>>)
         \o BlockFrom(doc, seq, paragraph_id, i + 1)

_extract_block(doc, seq, paragraph_id) == BlockFrom(doc, seq, paragraph_id, 1)

\* the ORG*→DOC_NAME relations whose document an ORG→DOC_NAME relation
\* names are dropped when the paragraph has an ORG*→ORG relation
Pruned(out) ==
    LET has_star_suborg == \E k \in 1..Len(out) : out[k].kind = "ORG*→ORG"
        docs_from_org == {out[k].tail.text : k \in {x \in 1..Len(out) : out[x].kind = "ORG→DOC_NAME"}}
    IN  IF has_star_suborg
        THEN SelectSeq(out, LAMBDA r : ~(r.kind = "ORG*→DOC_NAME" /\ r.tail.text \in docs_from_org))
        ELSE out

\* step 1 of the star path: the star linked to each sub-organization
StarLinks(doc, seq, paragraph_id) ==
    LET subs == SelectSeq(Tail(seq), LAMBDA ent : ent.label = "ORG_LABEL")
    IN  [k \in 1..Len(subs) |-> Relation(doc, seq[1], subs[k], "ORG*→ORG", paragraph_id)]

\* steps 2 and 3 of the star path: the pairing run inside the block of each
\* sub-organization, from the block opening at seq[idx] on
RECURSIVE SubBlocksFrom(_, _, _, _)
SubBlocksFrom(doc, seq, paragraph_id, idx) ==
    IF idx > Len(seq) THEN <<>>
    ELSE IF seq[idx].label # "ORG_LABEL" THEN SubBlocksFrom(doc, seq, paragraph_id, idx + 1)
    ELSE LET stops == {k \in (idx + 1)..Len(seq) :
                          seq[k].label \in {"ORG_LABEL", "ORG_WITH_STAR_LABEL"}}
             end_idx == IF stops = {} THEN Len(seq) + 1 ELSE SetMin(stops)
         IN  _extract_block(doc, SubSeq(seq, idx, end_idx - 1), paragraph_id)
             \o SubBlocksFrom(doc, seq, paragraph_id, idx + 1)

_extract_in_sequence(doc, seq, paragraph_id, is_star_block) ==
    IF is_star_block /\ seq # <<>> /\ seq[1].label = "ORG_WITH_STAR_LABEL"
    THEN Pruned(StarLinks(doc, seq, paragraph_id) \o SubBlocksFrom(doc, seq, paragraph_id, 2))
    ELSE Pruned(_extract_block(doc, seq, paragraph_id))

\* the relations of the paragraphs para_id, para_id + 1, ..., in that order:
\* by_para keeps the paragraphs in the order their first spans were met
RECURSIVE RelationsFrom(_, _, _)
RelationsFrom(doc, ents, para_id) ==
    IF \A k \in 1..Len(ents) : ents[k].paragraph_id < para_id THEN <<>>
    ELSE LET seq == SelectSeq(ents, LAMBDA e : e.paragraph_id = para_id)
         IN  (IF seq = <<>> THEN <<>>
              ELSE _extract_in_sequence(doc, seq, para_id,
                                        seq[1].label = "ORG_WITH_STAR_LABEL"))
             \o RelationsFrom(doc, ents, para_id + 1)

\* RelationExtractor.extract
extract(doc_sumario) ==
    RelationsFrom(doc_sumario, _collect_entities(doc_sumario), NoParagraph)

\* ------------------------------------------------------------------------
\* The flat relation extractor run on one summary (SpecRelations); doc_body
\* holds the summary text and its spans
\* ------------------------------------------------------------------------

MaxRelEnts == 5

T_T1 == <<"t","1">>
T_Jk == <<"j","k">>

RelationPieces ==
    {Piece("ORG_LABEL", T_Ab), Piece("ORG_WITH_STAR_LABEL", T_b),
     Piece("DOC_NAME_LABEL", T_D1), Piece("PARAGRAPH", T_T1), Piece("JUNK_LABEL", T_Jk)}

InitRelations ==
    /\ pc = "relations_start"
    /\ doc_body \in {DocOf(ps) : ps \in SeqsUpTo(RelationPieces, MaxRelEnts)}
    /\ payload = Unset
    /\ org_windows = Unset
    /\ org_blocks = Unset
    /\ doc_type_matches = Unset
    /\ next_bounds = Unset
    /\ results = Unset
    /\ results_min = Unset
    /\ split_out = Unset

\* RelationExtractor._collect_entities on the summary
CollectEntities ==
    /\ pc = "relations_start"
    /\ pc' = "collected"
    /\ results' = _collect_entities(doc_body)
    /\ UNCHANGED <<doc_body, payload, org_windows, org_blocks, doc_type_matches,
                   next_bounds, results_min, split_out>>

\* RelationExtractor.extract on the summary
ExtractRelations ==
    /\ pc = "relations_start"
    /\ pc' = "extracted"
    /\ results' = extract(doc_body)
    /\ UNCHANGED <<doc_body, payload, org_windows, org_blocks, doc_type_matches,
                   next_bounds, results_min, split_out>>

NextRelations == CollectEntities \/ ExtractRelations

SpecRelations == InitRelations /\ [][NextRelations]_vars

\* the spans of the summary that the extractor keeps, in order
KeptSpans == SelectSeq(doc_body.ents, LAMBDA e : e.label_ \in valid_labels)

\* a starred block is open at the k-th kept span when a starred
\* organization precedes it
InsideStarBlock(k) == \E j \in 1..(k - 1) : KeptSpans[j].label_ = "ORG_WITH_STAR_LABEL"

\* the spans at which a paragraph opens
Opens(k) ==
    \/ KeptSpans[k].label_ = "ORG_WITH_STAR_LABEL"
    \/ KeptSpans[k].label_ = "ORG_LABEL" /\ ~InsideStarBlock(k)

\* the paragraph id before the first kept span and after the k-th
IdAfter(k) == IF k = 0 THEN -1 ELSE results[k].paragraph_id

\* C22: scanning the summary spans in order, the paragraph id rises by one at
\* every starred organization and at every plain organization outside a
\* starred block, and at no other span; a plain organization inside a
\* starred block keeps the id of the starred organization that opened it,
\* and a block runs until the next starred organization.
C22_ParagraphIdSteps ==
    pc = "collected" =>
        /\ Len(results) = Len(KeptSpans)
        /\ \A k \in 1..Len(results) :
            /\ results[k].start = KeptSpans[k].start_char
            /\ IdAfter(k) = IF Opens(k) THEN IdAfter(k - 1) + 1 ELSE IdAfter(k - 1)
            /\ (KeptSpans[k].label_ = "ORG_LABEL" /\ InsideStarBlock(k)) =>
                LET star == SetMax({j \in 1..(k - 1) :
                                      KeptSpans[j].label_ = "ORG_WITH_STAR_LABEL"})
                IN  results[k].paragraph_id = results[star].paragraph_id

\* a plain organization opens paragraph 0, a starred one opens paragraph 1
\* and keeps a plain organization, and a second starred one opens paragraph 2
C22_Witness ==
    /\ pc = "collected"
    /\ Len(results) >= 4
    /\ \E k \in 2..(Len(results) - 2) :
        /\ results[k - 1].label = "ORG_LABEL" /\ results[k - 1].paragraph_id = 0
        /\ results[k].label = "ORG_WITH_STAR_LABEL" /\ results[k].paragraph_id = 1
        /\ results[k + 1].label = "ORG_LABEL" /\ results[k + 1].paragraph_id = 1
        /\ results[k + 2].label = "ORG_WITH_STAR_LABEL" /\ results[k + 2].paragraph_id = 2

\* the kept spans of the paragraph that the starred organization at the
\* k-th kept span opens: those after it, up to the next starred organization
StarParagraph(k) ==
    {j \in (k + 1)..Len(KeptSpans) :
        \A i \in (k + 1)..j : KeptSpans[i].label_ # "ORG_WITH_STAR_LABEL"}

LabelledIn(S, label) == {j \in S : KeptSpans[j].label_ = label}

\* a relation of the kind from the h-th kept span to the t-th
Related(kind, h, t) ==
    \E n \in 1..Len(results) :
        /\ results[n].kind = kind
        /\ results[n].head.start = KeptSpans[h].start_char
        /\ results[n].tail.start = KeptSpans[t].start_char

\* C23: in a paragraph opened by a starred organization, the starred
\* organization heads an ORG*→ORG relation to every plain organization of
\* the paragraph, and, the paragraph having no plain organization, an
\* ORG*→DOC_NAME relation to every document name that follows it.
C23_StarHeadsItsParagraph ==
    pc = "extracted" =>
        \A k \in LabelledIn(1..Len(KeptSpans), "ORG_WITH_STAR_LABEL") :
            /\ \A j \in LabelledIn(StarParagraph(k), "ORG_LABEL") : Related("ORG*→ORG", k, j)
            /\ LabelledIn(StarParagraph(k), "ORG_LABEL") = {} =>
                \A j \in LabelledIn(StarParagraph(k), "DOC_NAME_LABEL") :
                    Related("ORG*→DOC_NAME", k, j)

\* ------------------------------------------------------------------------
\* The Series III relation extractor and its exporter
\* (relations_extractor_serieIII.py).  Spans, relations and the paragraph
\* id -1 are as in the flat extractor.
\* ------------------------------------------------------------------------

valid_labels_serieIII == valid_labels \cup {"SERIE_III"}

\* mutant: no organization is propagated into the paragraph of a document name
Propagated_Nothing(ents, last_org_span, paragraph_id) == <<>>

\* the current organization, last_org_span being its index (0 for None),
\* copied into the paragraph that a document name opens
Propagated(ents, last_org_span, paragraph_id) ==
    IF last_org_span # 0 THEN <<EntitySpan(ents[last_org_span], paragraph_id)>> ELSE <<>>

\* the loop of RelationExtractorSerieIII._collect_entities from the i-th
\* span on
RECURSIVE CollectFromSerieIII(_, _, _, _, _)
CollectFromSerieIII(ents, i, current_pid, started, last_org_span) ==
    IF i > Len(ents) THEN <<>>
    ELSE IF ents[i].label_ \notin valid_labels_serieIII \/ ents[i].label_ = "SERIE_III"
    THEN CollectFromSerieIII(ents, i + 1, current_pid, started, last_org_span)
    ELSE IF ents[i].label_ \in {"ORG_LABEL", "ORG_WITH_STAR_LABEL"}
    THEN LET pid == IF started THEN current_pid ELSE current_pid + 1
         IN  <<EntitySpan(ents[i], IF pid >= 0 THEN pid ELSE NoParagraph)>>
             \o CollectFromSerieIII(ents, i + 1, pid, TRUE, i)
    ELSE IF ents[i].label_ = "DOC_NAME_LABEL"
    THEN Propagated(ents, last_org_span, current_pid + 1)
         \o <<EntitySpan(ents[i], current_pid + 1)>>
         \o CollectFromSerieIII(ents, i + 1, current_pid + 1, TRUE, last_org_span)
    ELSE <<EntitySpan(ents[i], IF current_pid >= 0 THEN current_pid ELSE NoParagraph)>>
         \o CollectFromSerieIII(ents, i + 1, current_pid, started, last_org_span)

_collect_entities_serieIII(doc) == CollectFromSerieIII(doc.ents, 1, -1, FALSE, 0)

_pair_kind_serieIII(head_label, tail_label) ==
    IF head_label = "ORG_LABEL" /\ tail_label = "DOC_NAME_LABEL" THEN "ORG→DOC_NAME"
    ELSE IF head_label = "ORG_WITH_STAR_LABEL" /\ tail_label = "DOC_NAME_LABEL"
    THEN "ORG*→DOC_NAME"
    ELSE IF head_label = "DOC_NAME_LABEL" /\ tail_label = "DOC_TEXT" THEN "DOC_NAME→DOC_TEXT"
    ELSE IF head_label = "DOC_NAME_LABEL" /\ tail_label = "PARAGRAPH" THEN "DOC_NAME→PARAGRAPH"
    ELSE NoKind

\* the fallback of a paragraph without a document name: its first
\* organization linked to each body
OrgToBodies(doc, seq, paragraph_id) ==
    LET orgs == SelectSeq(seq, LAMBDA e : e.label \in {"ORG_LABEL", "ORG_WITH_STAR_LABEL"})
        bodies == SelectSeq(seq, LAMBDA e : e.label \in {"DOC_TEXT", "PARAGRAPH"})
    IN  IF orgs = <<>> THEN <<>>
        ELSE [k \in 1..Len(bodies) |->
                Relation(doc, orgs[1], bodies[k],
                         IF bodies[k].label = "DOC_TEXT" THEN "ORG→DOC_TEXT" ELSE "ORG→PARAGRAPH",
                         paragraph_id)]

\* the left-to-right scan: every head linked to every later span it pairs with
RECURSIVE ScanFrom(_, _, _, _)
ScanFrom(doc, seq, paragraph_id, i) ==
    IF i > Len(seq) THEN <<>>
    ELSE LET tails == {j \in (i + 1)..Len(seq) :
                          _pair_kind_serieIII(seq[i].label, seq[j].label) # NoKind}
             nth(k) == CHOOSE j \in tails : Cardinality({x \in tails : x < j}) = k - 1
         IN  [k \in 1..Cardinality(tails) |->
                Relation(doc, seq[i], seq[nth(k)],
                         _pair_kind_serieIII(seq[i].label, seq[nth(k)].label), paragraph_id)]
             \o ScanFrom(doc, seq, paragraph_id, i + 1)

_extract_block_serieIII(doc, seq, paragraph_id) ==
    IF \E k \in 1..Len(seq) : seq[k].label = "DOC_NAME_LABEL"
    THEN ScanFrom(doc, seq, paragraph_id, 1)
    ELSE OrgToBodies(doc, seq, paragraph_id)

\* the relations of the paragraphs para_id, para_id + 1, ..., in that order
RECURSIVE RelationsFromSerieIII(_, _, _)
RelationsFromSerieIII(doc, ents, para_id) ==
    IF \A k \in 1..Len(ents) : ents[k].paragraph_id < para_id THEN <<>>
    ELSE _extract_block_serieIII(doc, SelectSeq(ents, LAMBDA e : e.paragraph_id = para_id),
                                 para_id)
         \o RelationsFromSerieIII(doc, ents, para_id + 1)

\* RelationExtractorSerieIII.extract
extract_serieIII(doc_sumario) ==
    RelationsFromSerieIII(doc_sumario, _collect_entities_serieIII(doc_sumario), NoParagraph)

\* _clean_child_text on a text of digits, spaces and letters other than n:
\* no list prefix, "n.º" reference, dot leader or dash run can occur in it,
\* so the words made of digits alone are removed, the white space is
\* collapsed, and a text left without a letter is dropped (None)
_clean_child_text(text) ==
    LET t == Strip(text)
        word(i) == {j \in 1..Len(t) : \A x \in (IF i < j THEN i..j ELSE j..i) : ~IsSpace(t[x])}
        numeric(i) == ~IsSpace(t[i]) /\ \A j \in word(i) : t[j] \in Digit
        cleaned == CollapseWs([i \in 1..Len(t) |-> IF numeric(i) THEN " " ELSE t[i]])
    IN  IF \E i \in 1..Len(cleaned) : IsAlpha(cleaned[i]) THEN cleaned ELSE None

\* the (text, label) of the organizations that head a relation, in the
\* order get_org_id first meets them
OrgHeadKinds == {"ORG→DOC_NAME", "ORG*→DOC_NAME", "ORG→DOC_TEXT", "ORG→PARAGRAPH"}

OrgHeads(rels) ==
    LET hs == SelectSeq(rels, LAMBDA r :
                    r.head.label \in {"ORG_LABEL", "ORG_WITH_STAR_LABEL"} /\ r.kind \in OrgHeadKinds)
    IN  [k \in 1..Len(hs) |-> [text |-> hs[k].head.text, label |-> hs[k].head.label]]

\* the first occurrence of each element of a sequence
Uniq(xs) ==
    LET keep == {i \in 1..Len(xs) : \A j \in 1..(i - 1) : xs[j] # xs[i]}
        nth(k) == CHOOSE i \in keep : Cardinality({j \in keep : j < i}) = k - 1
    IN  [k \in 1..Cardinality(keep) |-> xs[nth(k)]]

\* orgs_out
OrgsOut(rels) ==
    LET us == Uniq(OrgHeads(rels))
    IN  [k \in 1..Len(us) |-> [id |-> k, text |-> us[k].text, label |-> us[k].label]]

get_org_id(orgs_out, text, label) ==
    (CHOOSE o \in Range(orgs_out) : o.text = text /\ o.label = label).id

\* the kept children of a sequence of body spans
ChildrenOf(bodies) ==
    LET kept == SelectSeq(bodies, LAMBDA b : _clean_child_text(b.text) # None)
    IN  [k \in 1..Len(kept) |-> [child |-> _clean_child_text(kept[k].text), label |-> kept[k].label]]

\* the item of one paragraph, rels being its relations
ExportedItem(orgs_out, pid, rels) ==
    LET heads == OrgHeads(rels)
        docname_tails == SelectSeq(rels, LAMBDA r : r.kind \in {"ORG→DOC_NAME", "ORG*→DOC_NAME"})
        heads_doc == SelectSeq(rels, LAMBDA r : r.head.label = "DOC_NAME_LABEL")
        doc_span == IF docname_tails # <<>> THEN <<docname_tails[1].tail>>
                    ELSE IF heads_doc # <<>> THEN <<heads_doc[1].head>>
                    ELSE <<>>
        bodies(kinds) ==
            LET rs == SelectSeq(rels, LAMBDA r : r.kind \in kinds)
            IN  [k \in 1..Len(rs) |-> rs[k].tail]
    IN  [paragraph_id |-> pid,
         org_ids |-> Uniq([k \in 1..Len(heads) |->
                            get_org_id(orgs_out, heads[k].text, heads[k].label)]),
         doc_name |-> IF doc_span # <<>>
                      THEN [text |-> doc_span[1].text, label |-> doc_span[1].label]
                      ELSE None,
         children |-> IF doc_span # <<>>
                      THEN ChildrenOf(bodies({"DOC_NAME→DOC_TEXT", "DOC_NAME→PARAGRAPH"}))
                      ELSE ChildrenOf(bodies({"ORG→DOC_TEXT", "ORG→PARAGRAPH"}))]

\* the items of the paragraphs pid, pid + 1, ... that have a relation
RECURSIVE ItemsFrom(_, _, _)
ItemsFrom(orgs_out, relations, pid) ==
    IF \A k \in 1..Len(relations) : relations[k].paragraph_id < pid THEN <<>>
    ELSE LET rels == SelectSeq(relations, LAMBDA r : r.paragraph_id = pid)
         IN  (IF rels = <<>> THEN <<>> ELSE <<ExportedItem(orgs_out, pid, rels)>>)
             \o ItemsFrom(orgs_out, relations, pid + 1)

\* export_serieIII_items_minimal_json with render "none"
export_serieIII_items_minimal_json(relations) ==
    [orgs |-> OrgsOut(relations),
     items |-> ItemsFrom(OrgsOut(relations), relations, NoParagraph)]

\* ------------------------------------------------------------------------
\* The Series III extractor and exporter run on one summary
\* (SpecRelationsSerieIII); doc_body holds the summary text and its spans
\* ------------------------------------------------------------------------

MaxSerieIIIEnts == 5

T_Nums == <<"9"," ","1","0">>

SerieIIIPieces ==
    {Piece("ORG_LABEL", T_Ab), Piece("ORG_WITH_STAR_LABEL", T_b),
     Piece("DOC_NAME_LABEL", T_D1), Piece("PARAGRAPH", T_T1), Piece("DOC_TEXT", T_Nums)}

InitRelationsSerieIII ==
    /\ pc = "serieIII_start"
    /\ doc_body \in {DocOf(ps) : ps \in SeqsUpTo(SerieIIIPieces, MaxSerieIIIEnts)}
    /\ payload = Unset
    /\ org_windows = Unset
    /\ org_blocks = Unset
    /\ doc_type_matches = Unset
    /\ next_bounds = Unset
    /\ results = Unset
    /\ results_min = Unset
    /\ split_out = Unset

\* RelationExtractorSerieIII.extract on the summary
ExtractSerieIII ==
    /\ pc = "serieIII_start"
    /\ pc' = "serieIII_extracted"
    /\ results' = extract_serieIII(doc_body)
    /\ UNCHANGED <<doc_body, payload, org_windows, org_blocks, doc_type_matches,
                   next_bounds, results_min, split_out>>

\* export_serieIII_items_minimal_json on the extracted relations
ExportSerieIII ==
    /\ pc = "serieIII_extracted"
    /\ pc' = "serieIII_exported"
    /\ results_min' = export_serieIII_items_minimal_json(results)
    /\ UNCHANGED <<doc_body, payload, org_windows, org_blocks, doc_type_matches,
                   next_bounds, results, split_out>>

NextRelationsSerieIII == ExtractSerieIII \/ ExportSerieIII

SpecRelationsSerieIII == InitRelationsSerieIII /\ [][NextRelationsSerieIII]_vars

\* the document-name spans that the relations of paragraph pid touch, by
\* their start offsets
DocSpanStarts(pid) ==
    LET rs == {results[n] : n \in {k \in 1..Len(results) : results[k].paragraph_id = pid}}
    IN  {r.tail.start : r \in {x \in rs : x.tail.label = "DOC_NAME_LABEL"}}
        \cup {r.head.start : r \in {x \in rs : x.head.label = "DOC_NAME_LABEL"}}

\* the organization spans of the summary that precede its d-th span
OrgsBefore(d) == {k \in 1..(d - 1) : doc_body.ents[k].label_ \in ORG_LIKE_LABELS}

\* the item references exactly the organization most recently seen before
\* the d-th span, and none when no organization precedes it
ReferencesLatestOrg(item, d) ==
    IF OrgsBefore(d) = {} THEN item.org_ids = <<>>
    ELSE LET org == doc_body.ents[SetMax(OrgsBefore(d))]
         IN  \E o \in Range(results_min.orgs) :
                /\ o.text = org.text /\ o.label = org.label_
                /\ item.org_ids = <<o.id>>

\* the item is the item of the d-th span of the summary, a document name
ItemOfDocSpan(item, d) ==
    /\ doc_body.ents[d].label_ = "DOC_NAME_LABEL"
    /\ DocSpanStarts(item.paragraph_id) = {doc_body.ents[d].start_char}
    /\ item.doc_name # None
    /\ item.doc_name.text = doc_body.ents[d].text

\* C24: every document name opens a paragraph of its own into which the
\* organization most recently seen is propagated: every exported item with a
\* doc_name is the item of one document-name span and references exactly
\* one organization, the latest that precedes that span in the summary, or
\* none when no organization precedes it; and every document name that an
\* organization precedes has its item.
C24_DocNameItemHasLatestOrg ==
    pc = "serieIII_exported" =>
        /\ \A n \in 1..Len(results_min.items) :
            results_min.items[n].doc_name # None =>
                \E d \in 1..Len(doc_body.ents) :
                    /\ ItemOfDocSpan(results_min.items[n], d)
                    /\ ReferencesLatestOrg(results_min.items[n], d)
        /\ \A d \in 1..Len(doc_body.ents) :
            (doc_body.ents[d].label_ = "DOC_NAME_LABEL" /\ OrgsBefore(d) # {}) =>
                \E n \in 1..Len(results_min.items) : ItemOfDocSpan(results_min.items[n], d)

\* a document name with a body and no organization before it, then two
\* organizations and a second document name, whose item references the
\* later of the two
C24_Witness ==
    /\ pc = "serieIII_exported"
    /\ Len(results_min.items) = 2
    /\ results_min.items[1].doc_name # None /\ results_min.items[1].org_ids = <<>>
    /\ results_min.items[2].doc_name # None /\ Len(results_min.items[2].org_ids) = 1
    /\ \E d \in 1..Len(doc_body.ents) :
        /\ ItemOfDocSpan(results_min.items[2], d)
        /\ Cardinality({doc_body.ents[k].text : k \in OrgsBefore(d)}) = 2

\* ------------------------------------------------------------------------
\* The Series III result builder (results/serie_III/main.py).  A block of
\* the summary is [ORG_WITH_STAR_LABEL, ORG_LABEL, DOC_NAME_LABEL,
\* PARAGRAPH], each a sequence of texts, empty for a missing key; body_dict
\* is the sequence of the body entries [text, label], the key of an entry
\* being its index, from 1.  The anchor 0 stands for None.
\* ------------------------------------------------------------------------

\* results/serie_I_II_IV/helper.py
_norm_for_match(s) ==
    LET folded == SelectSeq(Lowered(UnaccentedK(s)), LAMBDA ch : ~IsSpace(ch))
    IN  SelectSeq(folded, LAMBDA ch : IsAlpha(ch))

prefix_threshold == 85
contain_threshold == 60

\* len(os.path.commonprefix([na, nb]))
CommonPrefixLen(na, nb) ==
    SetMax({k \in 0..Len(na) : k <= Len(nb) /\ SubSeq(na, 1, k) = SubSeq(nb, 1, k)})

\* the three tiers on the normalized forms
CloseForms(na, nb) ==
    LET longest == IF Len(na) >= Len(nb) THEN Len(na) ELSE Len(nb)
        shorter == IF Len(na) < Len(nb) THEN na ELSE nb
        longer == IF Len(na) < Len(nb) THEN nb ELSE na
    IN  /\ na # <<>> /\ nb # <<>>
        /\ \/ na = nb
           \/ 100 * CommonPrefixLen(na, nb) >= prefix_threshold * longest
           \/ /\ IsSubstr(shorter, longer)
              /\ 100 * Len(shorter) >= contain_threshold * Len(longer)

_is_close_match(a, b) == CloseForms(_norm_for_match(a), _norm_for_match(b))

\* SumarioDoc.from_block
from_block(idx, block) ==
    [idx |-> idx, header_texts |-> block.ORG_WITH_STAR_LABEL, org_texts |-> block.ORG_LABEL,
     doc_name |-> block.DOC_NAME_LABEL, doc_paragraph |-> block.PARAGRAPH]

build_sumario_docs(blocks) == [i \in 1..Len(blocks) |-> from_block(i - 1, blocks[i])]

ORG_LABELS == {"ORG_LABEL", "ORG_WITH_STAR_LABEL"}

\* the elements of a set of integers in ascending order
Ascending(S) ==
    [k \in 1..Cardinality(S) |-> CHOOSE x \in S : Cardinality({y \in S : y < x}) = k - 1]

\* the (idx, text) of the entries of body_dict, at the given keys, that
\* carry one of the labels, in ascending order of key
EntriesLabelled(body_dict, keys, labels) ==
    LET ks == Ascending({i \in keys : body_dict[i].label \in labels})
    IN  [k \in 1..Len(ks) |-> [idx |-> ks[k], text |-> body_dict[ks[k]].text]]

build_body_org_index(body_dict) == EntriesLabelled(body_dict, DOMAIN body_dict, ORG_LABELS)

\* the loop of assign_doc_anchors from the d-th document on, pos being the
\* next organization entry to look at (from 1): the anchors of the documents
RECURSIVE AnchorsFrom(_, _, _, _)
AnchorsFrom(sumario_docs, org_entries, d, pos) ==
    IF d > Len(sumario_docs) THEN <<>>
    ELSE LET candidates == sumario_docs[d].org_texts \o sumario_docs[d].header_texts
             hits == {p \in pos..Len(org_entries) :
                        \E c \in 1..Len(candidates) :
                            _is_close_match(candidates[c], org_entries[p].text)}
         IN  IF candidates = <<>>
             THEN <<0>> \o AnchorsFrom(sumario_docs, org_entries, d + 1, pos)
             ELSE IF hits = {}
             THEN <<0>> \o AnchorsFrom(sumario_docs, org_entries, d + 1, Len(org_entries) + 1)
             ELSE <<org_entries[SetMin(hits)].idx>>
                  \o AnchorsFrom(sumario_docs, org_entries, d + 1, SetMin(hits) + 1)

\* doc.anchor_idx of every document after assign_doc_anchors
assign_doc_anchors(sumario_docs, body_dict) ==
    AnchorsFrom(sumario_docs, build_body_org_index(body_dict), 1, 1)

\* doc.body_positions of the document anchored at start after
\* attach_body_segments, anchors holding the anchors of all the documents
BodyPositions(anchors, body_dict, start) ==
    LET later == {a \in Range(anchors) : a > start}
    IN  IF start = 0 THEN <<>>
        ELSE Ascending({idx \in DOMAIN body_dict :
                          idx >= start /\ (later # {} => idx < SetMin(later))})

\* _match_texts from the k-th text on, cursor being the next entry of
\* docname_entries to look at (from 1): the matches (t, idx, body_text)
RECURSIVE MatchTextsFrom(_, _, _, _)
MatchTextsFrom(texts, docname_entries, k, cursor) ==
    IF k > Len(texts) THEN <<>>
    ELSE LET hits == {j \in cursor..Len(docname_entries) :
                        _is_close_match(texts[k], docname_entries[j].text)}
         IN  IF texts[k] = <<>> \/ hits = {}
             THEN MatchTextsFrom(texts, docname_entries, k + 1, cursor)
             ELSE <<[sum_text |-> texts[k], idx |-> docname_entries[SetMin(hits)].idx,
                     body_text |-> docname_entries[SetMin(hits)].text]>>
                  \o MatchTextsFrom(texts, docname_entries, k + 1, SetMin(hits) + 1)

_match_texts(texts, docname_entries) == MatchTextsFrom(texts, docname_entries, 1, 1)

PositionsOf(matches) == [k \in 1..Len(matches) |-> matches[k].idx]

\* "\n\n".join(texts)
RECURSIVE JoinParagraphs(_)
JoinParagraphs(texts) ==
    IF texts = <<>> THEN <<>>
    ELSE IF Len(texts) = 1 THEN texts[1]
    ELSE texts[1] \o <<"\n", "\n">> \o JoinParagraphs(Tail(texts))

\* the documents of the section of the title at title_pos, which ends
\* before section_end
DocsInSection(body_positions, para_matches, title_pos, section_end) ==
    LET mine == Ascending({p \in Range(PositionsOf(para_matches)) :
                              title_pos <= p /\ p < section_end})
    IN  [j \in 1..Len(mine) |->
            LET end_boundary == IF j + 1 <= Len(mine) THEN mine[j + 1] ELSE section_end
                doc_indices == SelectSeq(body_positions,
                                   LAMBDA idx : mine[j] <= idx /\ idx < end_boundary)
                last == SetMax({m \in 1..Len(para_matches) : para_matches[m].idx = mine[j]})
            IN  [start_pos |-> doc_indices[1], end_pos |-> doc_indices[Len(doc_indices)] + 1,
                 sumario_text |-> para_matches[last].sum_text, indices |-> doc_indices]]

\* SumarioDoc.build_sections
build_sections(body_positions, name_matches, para_matches) ==
    LET titles == Ascending(Range(PositionsOf(name_matches)))
        section(i) ==
            LET last == SetMax({m \in 1..Len(name_matches) : name_matches[m].idx = titles[i]})
                section_end == IF i + 1 <= Len(titles) THEN titles[i + 1]
                               ELSE body_positions[Len(body_positions)] + 1
            IN  [title_pos |-> titles[i], title_sumario |-> name_matches[last].sum_text,
                 title_body |-> name_matches[last].body_text,
                 docs |-> DocsInSection(body_positions, para_matches, titles[i], section_end)]
    IN  IF body_positions = <<>> THEN <<>>
        ELSE SelectSeq([i \in 1..Len(titles) |-> section(i)], LAMBDA s : s.docs # <<>>)

\* one SumarioDoc after assign_doc_anchors, attach_body_segments,
\* compute_doc_positions and build_sections
PositionedDoc(doc, body_dict, anchor_idx, body_positions, docname_entries) ==
    LET name_matches == _match_texts(doc.doc_name, docname_entries)
        para_matches == _match_texts(doc.doc_paragraph, docname_entries)
    IN  [idx |-> doc.idx, header_texts |-> doc.header_texts, org_texts |-> doc.org_texts,
         doc_name |-> doc.doc_name, doc_paragraph |-> doc.doc_paragraph,
         anchor_idx |-> anchor_idx, body_positions |-> body_positions,
         doc_name_positions |-> PositionsOf(name_matches), doc_name_matches |-> name_matches,
         doc_paragraph_positions |-> PositionsOf(para_matches),
         doc_paragraph_matches |-> para_matches,
         sections |-> build_sections(body_positions, name_matches, para_matches)]

\* the SumarioDocs at the end of main
SumarioDocs(blocks, body_dict) ==
    LET docs == build_sumario_docs(blocks)
        anchors == assign_doc_anchors(docs, body_dict)
    IN  [d \in 1..Len(docs) |->
            LET body_positions == BodyPositions(anchors, body_dict, anchors[d])
            IN  PositionedDoc(docs[d], body_dict, anchors[d], body_positions,
                              EntriesLabelled(body_dict, Range(body_positions),
                                              {"DOC_NAME_LABEL"}))]

\* SumarioDoc.to_flat_docs
to_flat_docs(doc, body_dict) ==
    LET export(s, k) ==
            [header_texts |-> doc.header_texts, org_texts |-> doc.org_texts,
             doc_name |-> IF s.title_sumario # <<>> THEN s.title_sumario ELSE s.title_body,
             body |-> JoinParagraphs([n \in 1..Len(s.docs[k].indices) |->
                                        body_dict[s.docs[k].indices[n]].text])]
        RECURSIVE from(_)
        from(i) == IF i > Len(doc.sections) THEN <<>>
                   ELSE [k \in 1..Len(doc.sections[i].docs) |-> export(doc.sections[i], k)]
                        \o from(i + 1)
    IN  from(1)

\* all_docs
RECURSIVE AllDocsFrom(_, _, _)
AllDocsFrom(sumario_docs, body_dict, d) ==
    IF d > Len(sumario_docs) THEN <<>>
    ELSE to_flat_docs(sumario_docs[d], body_dict) \o AllDocsFrom(sumario_docs, body_dict, d + 1)

\* ------------------------------------------------------------------------
\* The Series III result builder run on the blocks of one summary and one
\* body (SpecBuilder); payload holds blocks, doc_body holds body_dict,
\* results the SumarioDocs and results_min the exported documents
\* ------------------------------------------------------------------------

MaxBuilderBlocks == 2
MaxBodyEntries == 4

T_Xy == <<"X","y">>
T_E == <<"E">>
T_AbbBold == <<"*","*","A","b","b","*","*">>

GroupedBlock(stars, orgs, names, paragraphs) ==
    [ORG_WITH_STAR_LABEL |-> stars, ORG_LABEL |-> orgs, DOC_NAME_LABEL |-> names,
     PARAGRAPH |-> paragraphs]

BuilderBlocks ==
    {GroupedBlock(<<>>, <<T_Ab>>, <<T_D1>>, <<T_E>>),
     GroupedBlock(<<>>, <<T_b>>, <<T_D1, T_E>>, <<T_D1>>),
     GroupedBlock(<<T_b>>, <<T_Xy>>, <<T_E, T_D1>>, <<T_E, <<>>, T_D1>>),
     GroupedBlock(<<>>, <<T_Xy>>, <<>>, <<>>),
     GroupedBlock(<<>>, <<>>, <<T_D1>>, <<>>)}

BodyEntry(label, text) == [text |-> text, label |-> label]

BuilderEntries ==
    {BodyEntry("ORG_LABEL", T_AbbBold), BodyEntry("ORG_WITH_STAR_LABEL", T_b),
     BodyEntry("DOC_NAME_LABEL", T_D1), BodyEntry("DOC_NAME_LABEL", T_E),
     BodyEntry("PARAGRAPH", T_T1)}

InitBuilder ==
    /\ pc = "builder_start"
    /\ payload \in SeqsUpTo(BuilderBlocks, MaxBuilderBlocks)
    /\ doc_body \in SeqsUpTo(BuilderEntries, MaxBodyEntries)
    /\ org_windows = Unset
    /\ org_blocks = Unset
    /\ doc_type_matches = Unset
    /\ next_bounds = Unset
    /\ results = Unset
    /\ results_min = Unset
    /\ split_out = Unset

\* main(blocks, body_dict)
BuilderMain ==
    /\ pc = "builder_start"
    /\ pc' = "builder_done"
    /\ results' = SumarioDocs(payload, doc_body)
    /\ results_min' = AllDocsFrom(results', doc_body, 1)
    /\ UNCHANGED <<doc_body, payload, org_windows, org_blocks, doc_type_matches,
                   next_bounds, split_out>>

NextBuilder == BuilderMain

SpecBuilder == InitBuilder /\ [][NextBuilder]_vars

\* the claims of first-fit matching in order: the t-th of T targets claims
\* the first candidate that matches it and lies after every candidate
\* claimed before, 0 when there is none
FirstFitClaims(T, candidates, Matching(_, _)) ==
    LET f[t \in 0..T] ==
            IF t = 0 THEN <<>>
            ELSE LET prev == SetMax(Range(f[t - 1]) \cup {0})
                     free == {i \in candidates : i > prev /\ Matching(t, i)}
                 IN  Append(f[t - 1], IF free = {} THEN 0 ELSE SetMin(free))
    IN  f[T]

Claimed(claims) == SelectSeq(claims, LAMBDA i : i # 0)

\* no candidate is claimed twice and the claimed positions rise
StrictlyIncreasing(positions) ==
    \A a, b \in 1..Len(positions) : a < b => positions[a] < positions[b]

\* the entries of the body that carry one of the labels, among the keys
BodyKeys(keys, labels) == {i \in keys : doc_body[i].label \in labels}

\* the d-th block of the summary matches the i-th entry of the body by one
\* of its organization or header texts
BlockMatches(d, i) ==
    \E c \in Range(payload[d].ORG_LABEL \o payload[d].ORG_WITH_STAR_LABEL) :
        _is_close_match(c, doc_body[i].text)

AnchorsOfRun == [d \in 1..Len(results) |-> results[d].anchor_idx]

\* the first-fit claims of the texts of a document among the document-name
\* entries of its body segment
TextClaims(d, texts) ==
    Claimed(FirstFitClaims(Len(texts),
                           BodyKeys(Range(results[d].body_positions), {"DOC_NAME_LABEL"}),
                           LAMBDA t, i : _is_close_match(texts[t], doc_body[i].text)))

AnchorsFirstFit ==
    AnchorsOfRun = FirstFitClaims(Len(payload), BodyKeys(DOMAIN doc_body, ORG_LABELS), BlockMatches)

TextsFirstFit ==
    \A d \in 1..Len(results) :
        /\ results[d].doc_name_positions = TextClaims(d, payload[d].DOC_NAME_LABEL)
        /\ results[d].doc_paragraph_positions = TextClaims(d, payload[d].PARAGRAPH)

\* C25: matching the blocks of the summary against the organization entries
\* of the body, and the document names of a block against the document-name
\* entries of its body segment, the targets are taken in order, each claims
\* the first candidate that matches it and is not yet claimed, no candidate
\* is claimed twice, and the claimed positions rise strictly in target order.
C25_FirstFitInOrder ==
    pc = "builder_done" =>
        /\ AnchorsFirstFit
        /\ StrictlyIncreasing(Claimed(AnchorsOfRun))
        /\ TextsFirstFit
        /\ \A d \in 1..Len(results) :
            /\ StrictlyIncreasing(results[d].doc_name_positions)
            /\ StrictlyIncreasing(results[d].doc_paragraph_positions)

\* the blocks before the d-th that have a text to match and match no
\* organization entry of the body
UnmatchedBefore(d) ==
    {e \in 1..(d - 1) :
        /\ payload[e].ORG_LABEL \o payload[e].ORG_WITH_STAR_LABEL # <<>>
        /\ \A i \in BodyKeys(DOMAIN doc_body, ORG_LABELS) : ~BlockMatches(e, i)}

\* the last anchor assigned to a block before the d-th, 0 when there is none
LastAnchorBefore(d) == SetMax({results[e].anchor_idx : e \in 1..(d - 1)} \cup {0})

\* C29: a block of the summary that matches no organization of the body does
\* not keep the later blocks from being anchored: a later block whose
\* organization occurs in the body after the last anchor assigned receives
\* an anchor.
C29_UnmatchedBlockDoesNotStarve ==
    pc = "builder_done" =>
        \A d \in 1..Len(results) :
            (/\ UnmatchedBefore(d) # {}
             /\ \E i \in BodyKeys(DOMAIN doc_body, ORG_LABELS) :
                    i > LastAnchorBefore(d) /\ BlockMatches(d, i))
            => results[d].anchor_idx # 0

\* ------------------------------------------------------------------------
\* The body ranges of the anchored items of a Series III run
\* ------------------------------------------------------------------------

\* the end of the segment of the k-th item of the payload
RangeEnd(k) == SegmentEnd(doc_body, org_windows, next_bounds, Anchor(payload.items[k]))

\* the positions of the body in [matched header end, segment end)
BodyRange(k) == {p \in 0..(Len(doc_body.text) - 1) :
                    Anchor(payload.items[k]).end <= p /\ p < RangeEnd(k)}

\* C26: in a Series III segmentation run the body ranges [matched header
\* end, segment end) of two different anchored payload items never overlap,
\* and each range has start <= end.
C26_BodyRangesDisjoint ==
    pc = "segment_done" =>
        /\ \A k \in AnchoredItems : Anchor(payload.items[k]).end <= RangeEnd(k)
        /\ \A j, k \in AnchoredItems : j # k => BodyRange(j) \cap BodyRange(k) = {}

\* ------------------------------------------------------------------------
\* The body blocks resolved for the organizations of a flat Series I/II run
\* ------------------------------------------------------------------------

\* the keys of the payload that the primary pass left without a block
MissingKeys == JsonOrgKeys(payload.items) \ Range(BlockKeys(org_blocks))

\* the blocks of the junk-label fallback, built when a key is missing
FallbackBlocks ==
    IF MissingKeys # {}
    THEN _build_blocks_coalesced_from_doc(doc_body, doc_body.text, IGNORE_LABELS, MissingKeys)
    ELSE <<>>

\* the entry of body_org_lookup for the organization of the i-th item
ResolvedBlock(i) ==
    body_org_lookup(org_blocks, BlockKeys(org_blocks), FallbackBlocks,
                    BlockKeys(FallbackBlocks), MissingKeys,
                    _org_key(payload.items[i].org.text))

\* the positions of the body inside the block resolved for the i-th item
BlockPositions(i) ==
    IF ResolvedBlock(i) = <<>> THEN {}
    ELSE {p \in 0..(Len(doc_body.text) - 1) :
             ResolvedBlock(i)[1].start <= p /\ p < ResolvedBlock(i)[1].end}

\* C27: in flat mode the body blocks resolved for two payload organizations
\* with different normalized keys never overlap, the blocks found through
\* the junk-label fallback for organizations missing from the primary pass
\* included.
C27_ResolvedBlocksDisjoint ==
    (pc = "divide_done" /\ ~Hierarchical(payload.items)) =>
        \A i, j \in 1..Len(payload.items) :
            _org_key(payload.items[i].org.text) # _org_key(payload.items[j].org.text)
                => BlockPositions(i) \cap BlockPositions(j) = {}

\* ------------------------------------------------------------------------
\* The place of the boundary of split_sumario_and_body
\* ------------------------------------------------------------------------

\* C28: whenever split_sumario_and_body succeeds (reason none) the boundary
\* span starts strictly after the first organization-like span that follows
\* the summary heading, so that the summary holds that first organization
\* and the body begins at a later span, for the boundaries found among the
\* organization-like spans and for those found through the junk-label
\* fallback.
C28_BoundaryAfterFirstOrg ==
    (pc = "sumario_body_done" /\ split_out.reason = "None") =>
        /\ split_out.boundary_org_start > FirstOrg.start_char
        /\ split_out.boundary_org_start >= FirstOrg.end_char
        /\ split_out.sumario =
               Slice(doc_body.text, LastHeading.end_char, FirstOrg.start_char)
               \o Slice(doc_body.text, FirstOrg.start_char, split_out.boundary_org_start)

\* ------------------------------------------------------------------------
\* The organizations of a Series III run that no window matches
\* ------------------------------------------------------------------------

\* the organizations of the run with status org_unanchored
UnanchoredOrgs == {o \in 1..Len(results) : results[o].status = "org_unanchored"}

\* C30: in Series III segmentation an organization whose window status is
\* org_unanchored (no exact or substring match and no token shared with any
\* window name) is assigned no window, so none of its items receives the
\* text of another organization's window.
C30_UnanchoredOrgHasNoWindow ==
    pc = "segment_done" =>
        \A o \in UnanchoredOrgs :
            /\ OrgWindowOf(o) = 0
            /\ \A r \in SliceRows :
                  (r[1] = o /\ TitleOf(ItemAt(r)) = <<>>) =>
                      /\ SliceAt(r).status # "doc_children_segment"
                      /\ SliceAt(r).text = <<>>

====
